---- MODULE Spec2Model ----
(***************************************************************************)
(* Session memory and prompt orchestration of the conversational backend:  *)
(* MongoMemoryManager (src/src/utils/memory_manager.py), PromptManager     *)
(* (src/src/utils/prompt_manager.py) and EnhancedAgent                     *)
(* (src/src/enhanced_agent.py).                                            *)
(*                                                                         *)
(* The durable backend is the pair of collections dConvs / dSessions; each *)
(* call made against it may raise (the backend can go away at any time).   *)
(* A durable call that raises has no effect on the collection.             *)
(***************************************************************************)
EXTENDS Integers, Sequences, FiniteSets, TLC

\* ------------------------------------------------------------------------
\* Bounds of the model
\* ------------------------------------------------------------------------
MaxTurns == 2
MaxClock == 1
MaxLimit == 2
MaxOffset == 1
MaxFailures == 1
MaxRuns == 1
JitterSteps == 4

SessionIds == {"s1", "s2"}
UserIds == {"u1"}
UserMessages == {"m1", "m2"}
AiResponses == {"r1"}
MetaKinds == {"reply"}

\* ------------------------------------------------------------------------
\* Dates and their text form
\* ------------------------------------------------------------------------
\* A datetime is a number of half seconds: Second(t) whole seconds and a
\* microsecond field that is 0 or 500000 (rendered by its leading digit).
Second(t) == t \div 2

Microsecond(t) == (t % 2) * 5

Digit(d) == 48 + d

Dot == 46

\* datetime.isoformat(): "...SS" when microsecond = 0, "...SS.ffffff" otherwise
\* (the date and hour fields are constant over a run and left out).
IsoFormat(t) ==
    IF Microsecond(t) = 0
    THEN << Digit(Second(t) \div 10), Digit(Second(t) % 10) >>
    ELSE << Digit(Second(t) \div 10), Digit(Second(t) % 10), Dot,
            Digit(Microsecond(t)) >>

\* datetime.fromisoformat()
FromIsoFormat(str) ==
    LET sec == (str[1] - 48) * 10 + (str[2] - 48)
    IN  IF Len(str) = 2 THEN sec * 2
        ELSE sec * 2 + ((str[4] - 48) \div 5)

\* Python's str comparison: code point by code point, a proper prefix is less.
RECURSIVE StrLess(_, _)
StrLess(a, b) ==
    IF b = << >> THEN FALSE
    ELSE IF a = << >> THEN TRUE
    ELSE IF Head(a) # Head(b) THEN Head(a) < Head(b)
    ELSE StrLess(Tail(a), Tail(b))

\* ------------------------------------------------------------------------
\* State
\* ------------------------------------------------------------------------
VARIABLES
    connected,      \* MongoMemoryManager.client is not None
    dConvs,         \* durable collection "conversations", in insertion order
    dSessions,      \* durable collection "sessions", keyed by session_id
    memConvs,       \* MongoMemoryManager._memory_conversations
    memSessions,    \* MongoMemoryManager._memory_sessions
    clock,          \* last value read from datetime.utcnow()
    nextId,         \* number of turn ids generated so far, plus one
    failures,       \* number of durable calls that have raised so far
    lastOp,         \* the last call made on the store and its outcome
    conversation_history,   \* PromptManager.conversation_history (the window)
    conversation_summary,   \* PromptManager.conversation_summary
    runOut,         \* what the last EnhancedAgent.run call returned
    acked,          \* the turns returned to the caller as non-error responses
    generation,     \* the _generate_response call in progress, step by step
    calls,          \* the run calls of each caller of the agent, step by step
    enhanced_sessions,  \* the session ids that are keys of enhanced_sessions
    context,        \* EnhancedAgent.context of the agent of the session
    chat,           \* how far an enhanced_chat request that restores the
                    \* agent has come
    simple_history  \* SimpleAgent.history of the agent of a main.py session

storeVars == << connected, dConvs, dSessions, memConvs, memSessions, clock,
                nextId >>

\* A durable call can raise only on a store that holds a client, and while
\* the failures the model injects are not used up.
MayFail(n) == n = 0 \/ (connected /\ failures + n <= MaxFailures)

\* The registry of the process, the context of the agent, the position of
\* the request that restores it, and the history of the SimpleAgent.
processVars == << enhanced_sessions, context, chat, simple_history >>

agentVars == << conversation_history, conversation_summary, runOut, acked,
                generation, calls, processVars >>

vars == << connected, dConvs, dSessions, memConvs, memSessions, clock,
           nextId, failures, lastOp, conversation_history,
           conversation_summary, runOut, acked, generation, calls,
           enhanced_sessions, context, chat, simple_history >>

\* ConversationTurn.to_dict(): the timestamp is stored as text.
TurnDoc(id, s, u, m, r, md, ts) ==
    [id |-> id, session_id |-> s, user_id |-> u, user_message |-> m,
     ai_response |-> r, metadata |-> md, timestamp |-> IsoFormat(ts)]

NoTurn ==
    [id |-> 0, session_id |-> "", user_id |-> "", user_message |-> "",
     ai_response |-> "", metadata |-> "", timestamp |-> << >>]

\* A session document; present = FALSE stands for "no document with this
\* session_id", has_created = FALSE for a document without a created_at field.
NoSession ==
    [present |-> FALSE, user_id |-> "", last_activity |-> 0,
     has_created |-> FALSE, created_at |-> 0]

NoStats == [connected |-> FALSE, storage_type |-> "", total_conversations |-> 0,
            total_sessions |-> 0]

\* The dictionary get_session_summary returns; has_times and has_created
\* tell whether the keys first_message/last_message and created_at carry a
\* value.
NoSummary ==
    [turn_count |-> 0, has_times |-> FALSE, first_message |-> << >>,
     last_message |-> << >>, has_created |-> FALSE, created_at |-> 0,
     user_id |-> "", storage_type |-> ""]

\* The outcome of a call: which call, whether it raised to the caller,
\* whether a durable call failed inside it, and what it returned.
Outcome(op) ==
    [op |-> op, raised |-> FALSE, failed |-> FALSE, sid |-> "",
     turn |-> NoTurn, limit |-> 0, offset |-> 0, sel |-> << >>,
     hist |-> << >>, stats |-> NoStats, summary |-> NoSummary,
     sessions |-> << >>, cutoff |-> 0, deleted |-> 0]

\* The empty string as a summary; a digest carries the topics it lists and
\* the number of topics it only counts.
EmptySummary == [text |-> "", topics |-> << >>, others |-> 0]

\* generated is the text _generate_response returned in the call, before
\* output validation.
\* format_type is the requested format, outcomes what the calls of the model
\* made in the call did, attempts and waits their number and the number of
\* sleeps, error_details the text of the exception run caught.
NoRun == [op |-> "none", input |-> "", error |-> FALSE, error_type |-> "",
          content |-> "", save_called |-> FALSE, generated |-> "",
          format_type |-> "", outcomes |-> << >>, attempts |-> 0,
          waits |-> 0, error_details |-> "", user_preferences |-> << >>]

\* No _generate_response call has been made: events lists the calls of the
\* model and the sleeps of the call in progress, in the order they happened.
NoGeneration == [status |-> "idle", attempt |-> 0, events |-> << >>,
                 text |-> ""]

\* The threads that call run on the agent.
Callers == {1, 2}

\* A caller outside run: pc is its position (ready when it is not in a
\* call), sliced the list its build_prompt has read for the truncation,
\* attempt the loop variable of _generate_response, content the content of
\* the response, started the number of calls it has made, result what its
\* last call returned, overlapped whether a call of it ever ran while
\* another call was in progress.
NoCall == [pc |-> "ready", input |-> "", sliced |-> << >>, attempt |-> 0,
           content |-> "", started |-> 0, result |-> "none",
           overlapped |-> FALSE]

NoCalls == [c \in Callers |-> NoCall]

\* The except branch of __init__ is the only place that creates
\* _memory_conversations and _memory_sessions.
MemoryAttrsDefined == ~connected

\* The agent of the model serves this session and user.
AgentSession == "s1"
AgentUser == "u1"

\* context["user_preferences"] as __init__ sets it (enhanced_agent.py:56-60)
DefaultPreferences ==
    [response_style |-> "detailed", technical_level |-> "intermediate",
     language |-> "english"]

\* self.context of lines 52-61
InitialContext ==
    [session_id |-> AgentSession, user_id |-> AgentUser, domain |-> "general",
     user_preferences |-> DefaultPreferences]

\* The process holds the agent of the session, as create_enhanced_session
\* or a restoring enhanced_chat request registered it.
AgentRegistered ==
    /\ enhanced_sessions = {AgentSession}
    /\ context = InitialContext
    /\ chat = "none"
    /\ simple_history = << >>

\* MongoMemoryManager.__init__: one connectivity probe; both outcomes leave a
\* constructed store.
Init ==
    /\ connected \in BOOLEAN
    /\ dConvs = << >>
    /\ dSessions = [s \in SessionIds |-> NoSession]
    /\ memConvs = << >>
    /\ memSessions = [s \in SessionIds |-> NoSession]
    /\ clock = 0
    /\ nextId = 1
    /\ failures = 0
    /\ lastOp = Outcome("init")
    /\ conversation_history = << >>
    /\ conversation_summary = EmptySummary
    /\ runOut = NoRun
    /\ acked = << >>
    /\ generation = NoGeneration
    /\ calls = NoCalls
    /\ AgentRegistered

\* Faulty variant of is_connected: the failed probe is not recorded.
AlwaysConnected == TRUE

is_connected == connected

\* ------------------------------------------------------------------------
\* save_conversation_turn
\* ------------------------------------------------------------------------
\* sessions.update_one({"session_id": s}, {"$set": session_data,
\*   "$setOnInsert": {"created_at": utcnow()}}, upsert=True)
Upsert(coll, s, u, la, ca) ==
    [coll EXCEPT ![s] =
        IF coll[s].present
        THEN [coll[s] EXCEPT !.user_id = u, !.last_activity = la]
        ELSE [present |-> TRUE, user_id |-> u, last_activity |-> la,
              has_created |-> TRUE, created_at |-> ca]]

\* session_data of lines 137-142, as assigned at line 160: no created_at.
SessionData(u, la) ==
    [present |-> TRUE, user_id |-> u, last_activity |-> la,
     has_created |-> FALSE, created_at |-> 0]

\* The dictionary of lines 165-171.
MemorySessionRecord(u, la, ca) ==
    [present |-> TRUE, user_id |-> u, last_activity |-> la,
     has_created |-> TRUE, created_at |-> ca]

\* The state of the store after save_conversation_turn, and whether the call
\* raised.  la and ca are the values of utcnow() that go into last_activity
\* and created_at; insertFails and upsertFails tell whether insert_one and
\* update_one raise.
SaveEffect(turn, s, u, la, ca, insertFails, upsertFails) ==
    IF is_connected
    THEN IF ~insertFails /\ ~upsertFails
         THEN [dc |-> Append(dConvs, turn),
               ds |-> Upsert(dSessions, s, u, la, ca),
               mc |-> memConvs, ms |-> memSessions,
               raised |-> FALSE, failed |-> FALSE]
         ELSE \* except branch, lines 156-161
              LET dc == IF insertFails THEN dConvs ELSE Append(dConvs, turn)
              IN  IF ~MemoryAttrsDefined
                  THEN \* AttributeError at line 159
                       [dc |-> dc, ds |-> dSessions,
                        mc |-> memConvs, ms |-> memSessions,
                        raised |-> TRUE, failed |-> TRUE]
                  ELSE IF insertFails
                  THEN \* session_data is unbound at line 160
                       [dc |-> dc, ds |-> dSessions,
                        mc |-> Append(memConvs, turn), ms |-> memSessions,
                        raised |-> TRUE, failed |-> TRUE]
                  ELSE [dc |-> dc, ds |-> dSessions,
                        mc |-> Append(memConvs, turn),
                        ms |-> [memSessions EXCEPT ![s] = SessionData(u, la)],
                        raised |-> FALSE, failed |-> TRUE]
    ELSE \* memory storage, lines 162-172
         [dc |-> dConvs, ds |-> dSessions,
          mc |-> Append(memConvs, turn),
          ms |-> [memSessions EXCEPT ![s] = MemorySessionRecord(u, la, ca)],
          raised |-> FALSE, failed |-> FALSE]

save_conversation_turn(s, u, m, r, md) ==
    /\ nextId <= MaxTurns
    \* utcnow() is read for the turn (line 127) and again for the session
    \* record; the adjacent readings of lines 140/149 and of 168/169 are one
    \* instant.
    /\ \E ts \in clock..MaxClock, insertFails \in BOOLEAN, upsertFails \in BOOLEAN :
       \E la \in ts..MaxClock :
          LET ca == la
              turn == TurnDoc(nextId, s, u, m, r, md, ts)
              eff == SaveEffect(turn, s, u, la, ca, insertFails, upsertFails)
          IN  /\ MayFail(IF insertFails \/ upsertFails THEN 1 ELSE 0)
              /\ failures' = failures + (IF insertFails \/ upsertFails THEN 1 ELSE 0)
              \* update_one is not reached, and the clock not read again,
              \* once insert_one has raised
              /\ insertFails => (~upsertFails /\ la = ts /\ ca = ts)
              /\ dConvs' = eff.dc
              /\ dSessions' = eff.ds
              /\ memConvs' = eff.mc
              /\ memSessions' = eff.ms
              /\ clock' = ca
              /\ nextId' = nextId + 1
              /\ lastOp' = [Outcome("save") EXCEPT !.raised = eff.raised,
                                !.failed = eff.failed, !.sid = s,
                                !.turn = turn]
              /\ UNCHANGED connected

\* Session ids and message texts are interchangeable names: a call takes a
\* value that is already stored or the first one, in this order, that is not.
SessionOrder == << "s1", "s2" >>
MessageOrder == << "m1", "m2" >>

Stored == dConvs \o memConvs

UpToFirstNew(order, used) ==
    {order[i] : i \in {j \in 1..Len(order) :
                        \A k \in 1..Len(order) : k < j => order[k] \in used}}

Save ==
    /\ \E s \in UpToFirstNew(SessionOrder,
                  {Stored[i].session_id : i \in 1..Len(Stored)}),
          m \in UpToFirstNew(MessageOrder,
                  {Stored[i].user_message : i \in 1..Len(Stored)}),
          u \in UserIds, r \in AiResponses, md \in MetaKinds :
           /\ s \in SessionIds
           /\ m \in UserMessages
           /\ save_conversation_turn(s, u, m, r, md)
    /\ UNCHANGED agentVars

\* ------------------------------------------------------------------------
\* get_conversation_history
\* ------------------------------------------------------------------------
Min(a, b) == IF a < b THEN a ELSE b

\* Faulty variant of Reverse: the newest-first selection is returned as is.
NotReversed(seq) == seq

RECURSIVE Reverse(_)
Reverse(seq) ==
    IF seq = << >> THEN << >>
    ELSE Append(Reverse(Tail(seq)), Head(seq))

\* [conv for conv in coll if conv["session_id"] == s], and the find() filter
SessionTurns(coll, s) == SelectSeq(coll, LAMBDA c : c.session_id = s)

\* One step of a stable sort on the timestamp text, largest first: x goes
\* behind every element whose key is not smaller than its own.
InsertDescending(x, sorted) ==
    LET smaller == {i \in 1..Len(sorted) :
                        StrLess(sorted[i].timestamp, x.timestamp)}
        pos == IF smaller = {} THEN Len(sorted) + 1
               ELSE CHOOSE i \in smaller : \A j \in smaller : i <= j
    IN  SubSeq(sorted, 1, pos - 1) \o << x >> \o SubSeq(sorted, pos, Len(sorted))

\* sorted(conversations, key=lambda x: x["timestamp"], reverse=True):
\* Python's sort is stable, also with reverse=True.
RECURSIVE SortedDescending(_)
SortedDescending(seq) ==
    IF seq = << >> THEN << >>
    ELSE InsertDescending(seq[Len(seq)],
                          SortedDescending(SubSeq(seq, 1, Len(seq) - 1)))

\* Faulty variant of Slice: the offset is ignored.
SliceWithoutSkip(seq, offset, limit) == SubSeq(seq, 1, Min(limit, Len(seq)))

\* conversations[offset:offset+limit], and .skip(offset).limit(limit), for
\* offset >= 0 and limit >= 1
Slice(seq, offset, limit) ==
    SubSeq(seq, offset + 1, Min(offset + limit, Len(seq)))

\* find(...).sort("timestamp", DESCENDING): the documents in some order that
\* is descending on the timestamp; documents with equal timestamps come in
\* any order.
RECURSIVE DurableSortOrders(_)
DurableSortOrders(seq) ==
    IF seq = << >> THEN {<< >>}
    ELSE LET n == Len(seq)
             \* the documents no other document is newer than
             first == {i \in 1..n : \A j \in 1..n :
                          ~StrLess(seq[i].timestamp, seq[j].timestamp)}
         IN  UNION {{<< seq[i] >> \o rest :
                        rest \in DurableSortOrders(
                            SubSeq(seq, 1, i - 1) \o SubSeq(seq, i + 1, n))} :
                    i \in first}

\* lines 207-213: two entries per turn, user first
RECURSIVE ToHistory(_)
ToHistory(convs) ==
    IF convs = << >> THEN << >>
    ELSE << [role |-> "user", content |-> Head(convs).user_message],
            [role |-> "assistant", content |-> Head(convs).ai_response] >>
         \o ToHistory(Tail(convs))

\* lines 200-205 (and 192-197)
MemoryHistory(s, limit, offset) ==
    Slice(SortedDescending(SessionTurns(memConvs, s)), offset, limit)

\* The selections get_conversation_history can make, newest first, with
\* whether the call raised; findFails tells whether the durable query raises.
HistoryOutcomes(s, limit, offset, findFails) ==
    IF is_connected
    THEN IF ~findFails
         THEN {[sel |-> Slice(srt, offset, limit), raised |-> FALSE,
                failed |-> FALSE] :
                    srt \in DurableSortOrders(SessionTurns(dConvs, s))}
         ELSE IF MemoryAttrsDefined
         THEN {[sel |-> MemoryHistory(s, limit, offset), raised |-> FALSE,
                failed |-> TRUE]}
         ELSE \* AttributeError at line 193
              {[sel |-> << >>, raised |-> TRUE, failed |-> TRUE]}
    ELSE {[sel |-> MemoryHistory(s, limit, offset), raised |-> FALSE,
           failed |-> FALSE]}

get_conversation_history(s, limit, offset) ==
    \E findFails \in BOOLEAN :
    \E out \in HistoryOutcomes(s, limit, offset, findFails) :
        /\ MayFail(IF findFails THEN 1 ELSE 0)
        /\ failures' = failures + (IF findFails THEN 1 ELSE 0)
        /\ lastOp' = [Outcome("history") EXCEPT !.raised = out.raised,
                          !.failed = out.failed, !.sid = s, !.limit = limit,
                          !.offset = offset, !.sel = Reverse(out.sel),
                          !.hist = IF out.raised THEN << >>
                                   ELSE ToHistory(Reverse(out.sel))]
        /\ UNCHANGED storeVars

GetHistory ==
    /\ \E s \in SessionIds, limit \in 1..MaxLimit, offset \in 0..MaxOffset :
           get_conversation_history(s, limit, offset)
    /\ UNCHANGED agentVars

\* ------------------------------------------------------------------------
\* get_database_stats, close_connection
\* ------------------------------------------------------------------------
CountPresent(coll) == Cardinality({s \in SessionIds : coll[s].present})

\* Faulty variant of StatsError: the error branch reports the client flag.
StatsErrorKeepsFlag ==
    [connected |-> is_connected, storage_type |-> "mongodb_error",
     total_conversations |-> 0, total_sessions |-> 0]

\* lines 402-407: what get_database_stats returns when a durable call raises
StatsError ==
    [connected |-> FALSE, storage_type |-> "mongodb_error",
     total_conversations |-> 0, total_sessions |-> 0]

get_database_stats ==
    \E statsFail \in BOOLEAN :
        /\ MayFail(IF statsFail THEN 1 ELSE 0)
        /\ failures' = failures + (IF statsFail THEN 1 ELSE 0)
        /\ lastOp' = [Outcome("stats") EXCEPT !.failed = statsFail,
              !.stats =
                IF is_connected
                THEN IF ~statsFail
                     THEN [connected |-> TRUE, storage_type |-> "mongodb",
                           total_conversations |-> Len(dConvs),
                           total_sessions |-> CountPresent(dSessions)]
                     ELSE StatsError
                ELSE [connected |-> FALSE, storage_type |-> "memory",
                      total_conversations |-> Len(memConvs),
                      total_sessions |-> CountPresent(memSessions)]]
        /\ UNCHANGED storeVars

GetStats == get_database_stats /\ UNCHANGED agentVars

\* client.close() leaves self.client in place
close_connection ==
    /\ lastOp' = Outcome("close")
    /\ lastOp.op # "close"
    /\ UNCHANGED << storeVars, failures >>

CloseConnection == close_connection /\ UNCHANGED agentVars

\* ------------------------------------------------------------------------
\* get_session_summary
\* ------------------------------------------------------------------------
\* min(timestamps) and max(timestamps) on the stored text; also what find_one
\* with an ascending / descending sort on "timestamp" returns as timestamp.
MinTimestamp(convs) ==
    LET ts == {convs[i].timestamp : i \in 1..Len(convs)}
    IN  CHOOSE t \in ts : \A u \in ts : ~StrLess(u, t)

MaxTimestamp(convs) ==
    LET ts == {convs[i].timestamp : i \in 1..Len(convs)}
    IN  CHOOSE t \in ts : \A u \in ts : ~StrLess(t, u)

\* lines 268-281 (and 252-265): the summary built from _memory_conversations;
\* without turns of the session the function falls through to lines 283-287.
MemorySummary(s) ==
    LET session_convs == SessionTurns(memConvs, s)
    IN  IF session_convs # << >>
        THEN [NoSummary EXCEPT !.turn_count = Len(session_convs),
                               !.has_times = TRUE,
                               !.first_message = MinTimestamp(session_convs),
                               !.last_message = MaxTimestamp(session_convs),
                               !.storage_type = "memory"]
        ELSE [NoSummary EXCEPT !.storage_type = "none"]

\* lines 222-247: the summary built from the durable collections
DurableSummary(s) ==
    LET convs == SessionTurns(dConvs, s)
        session_info == dSessions[s]
    IN  [turn_count |-> Len(convs),
         has_times |-> convs # << >>,
         first_message |-> IF convs # << >> THEN MinTimestamp(convs) ELSE << >>,
         last_message |-> IF convs # << >> THEN MaxTimestamp(convs) ELSE << >>,
         \* session_info["created_at"] if session_info else None
         has_created |-> session_info.present,
         created_at |-> IF session_info.present THEN session_info.created_at
                        ELSE 0,
         user_id |-> IF session_info.present THEN session_info.user_id
                     ELSE "unknown",
         storage_type |-> "mongodb"]

get_session_summary(s) ==
    \E queryFails \in BOOLEAN :
        /\ MayFail(IF queryFails THEN 1 ELSE 0)
        /\ failures' = failures + (IF queryFails THEN 1 ELSE 0)
        /\ lastOp' =
              IF is_connected
              THEN IF ~queryFails
                   THEN [Outcome("summary") EXCEPT !.sid = s,
                            !.summary = DurableSummary(s)]
                   ELSE IF MemoryAttrsDefined
                   THEN [Outcome("summary") EXCEPT !.sid = s, !.failed = TRUE,
                            !.summary = MemorySummary(s)]
                   ELSE \* AttributeError at line 252
                        [Outcome("summary") EXCEPT !.sid = s, !.failed = TRUE,
                            !.raised = TRUE]
              ELSE [Outcome("summary") EXCEPT !.sid = s,
                       !.summary = MemorySummary(s)]
        /\ UNCHANGED storeVars

GetSessionSummary ==
    /\ \E s \in SessionIds : get_session_summary(s)
    /\ UNCHANGED agentVars

\* ------------------------------------------------------------------------
\* get_user_sessions
\* ------------------------------------------------------------------------
\* The session_info of lines 305-311 (and 333-338) for session s of coll,
\* counted against convs.
SessionInfo(coll, convs, s) ==
    [session_id |-> s, has_created |-> coll[s].has_created,
     created_at |-> coll[s].created_at,
     last_activity |-> coll[s].last_activity,
     conversation_count |-> Len(SessionTurns(convs, s))]

\* The sessions of user u in coll, in every order that is descending on
\* last_activity, cut to limit entries: find().sort("last_activity",
\* DESCENDING).limit(limit), and sorted(..., reverse=True)[:limit] over the
\* values of _memory_sessions (sessions with equal last_activity come in
\* the order of the dictionary's keys, which is one of these orders).
UserSessionLists(coll, convs, u, limit) ==
    LET ids == {s \in SessionIds : coll[s].present /\ coll[s].user_id = u}
        n == Cardinality(ids)
        orders == {f \in [1..n -> ids] :
                     /\ \A i, j \in 1..n : i # j => f[i] # f[j]
                     /\ \A i \in 1..n : i < n =>
                           coll[f[i]].last_activity >= coll[f[i + 1]].last_activity}
    IN  {[i \in 1..Min(limit, n) |-> SessionInfo(coll, convs, f[i])] :
            f \in orders}

get_user_sessions(u, limit) ==
    \E queryFails \in BOOLEAN :
        /\ MayFail(IF queryFails THEN 1 ELSE 0)
        /\ failures' = failures + (IF queryFails THEN 1 ELSE 0)
        /\ IF is_connected
           THEN IF ~queryFails
                THEN \E lst \in UserSessionLists(dSessions, dConvs, u, limit) :
                        lastOp' = [Outcome("user_sessions") EXCEPT
                                      !.limit = limit, !.sessions = lst]
                ELSE \* lines 316-318: return []
                     lastOp' = [Outcome("user_sessions") EXCEPT
                                   !.limit = limit, !.failed = TRUE]
           ELSE \E lst \in UserSessionLists(memSessions, memConvs, u, limit) :
                   lastOp' = [Outcome("user_sessions") EXCEPT
                                 !.limit = limit, !.sessions = lst]
        /\ UNCHANGED storeVars

GetUserSessions ==
    /\ \E u \in UserIds, limit \in 1..MaxLimit : get_user_sessions(u, limit)
    /\ UNCHANGED agentVars

\* ------------------------------------------------------------------------
\* cleanup_old_sessions
\* ------------------------------------------------------------------------
\* timedelta(days=1), in the unit of the clock
Day == 172800

\* The values of days_old the calls of the model pass.
DaysOld == {0, 1}

\* The query {"timestamp": {"$lt": cutoff_date}}: a comparison operator of the
\* durable backend matches only values of the type of its operand, and
\* ConversationTurn.to_dict stores the timestamp as text, not as a date.
TimestampIsDate == FALSE

DurableTurnIsOld(conv, cutoff_date) ==
    TimestampIsDate /\ FromIsoFormat(conv.timestamp) < cutoff_date

\* lines 366-370: the turns kept in _memory_conversations
MemoryTurnIsKept(conv, cutoff_date) ==
    FromIsoFormat(conv.timestamp) >= cutoff_date

\* delete_many({"last_activity": {"$lt": cutoff_date}}), and lines 374-377
DropOldSessions(coll, cutoff_date) ==
    [s \in SessionIds |->
        IF coll[s].present /\ coll[s].last_activity < cutoff_date
        THEN NoSession ELSE coll[s]]

cleanup_old_sessions(days_old) ==
    \E now \in clock..MaxClock, convFails \in BOOLEAN, sessFails \in BOOLEAN :
        LET cutoff_date == now - days_old * Day
            failed == convFails \/ sessFails
            keptDurable == SelectSeq(dConvs,
                              LAMBDA c : ~DurableTurnIsOld(c, cutoff_date))
            keptMemory == SelectSeq(memConvs,
                              LAMBDA c : MemoryTurnIsKept(c, cutoff_date))
        IN  /\ MayFail(IF failed THEN 1 ELSE 0)
            /\ convFails => ~sessFails
            /\ failures' = failures + (IF failed THEN 1 ELSE 0)
            /\ clock' = now
            /\ IF is_connected
               THEN \* lines 347-363; deleted_count is assigned after both
                    \* delete_many calls have returned
                    /\ dConvs' = IF convFails THEN dConvs ELSE keptDurable
                    /\ dSessions' = IF failed THEN dSessions
                                    ELSE DropOldSessions(dSessions, cutoff_date)
                    /\ UNCHANGED << memConvs, memSessions >>
                    /\ lastOp' = [Outcome("cleanup") EXCEPT !.failed = failed,
                           !.cutoff = cutoff_date,
                           !.deleted = IF failed THEN 0
                                       ELSE Len(dConvs) - Len(keptDurable)]
               ELSE \* lines 364-377
                    /\ memConvs' = keptMemory
                    /\ memSessions' = DropOldSessions(memSessions, cutoff_date)
                    /\ UNCHANGED << dConvs, dSessions >>
                    /\ lastOp' = [Outcome("cleanup") EXCEPT
                           !.cutoff = cutoff_date,
                           !.deleted = Len(memConvs) - Len(keptMemory)]
            /\ UNCHANGED << connected, nextId >>

CleanupOldSessions ==
    /\ \E days_old \in DaysOld : cleanup_old_sessions(days_old)
    /\ UNCHANGED agentVars

Next ==
    \/ Save
    \/ GetHistory
    \/ GetStats
    \/ CloseConnection

Spec == Init /\ [][Next]_vars

\* The store under its retrieval and maintenance calls.
MaintenanceNext ==
    \/ Save
    \/ GetHistory
    \/ GetSessionSummary
    \/ GetUserSessions
    \/ CleanupOldSessions

MaintenanceSpec == Init /\ [][MaintenanceNext]_vars

\* ------------------------------------------------------------------------
\* Texts
\* ------------------------------------------------------------------------
\* The texts of the model and what the patterns and length tests of the
\* guardrails see in them.
HarmfulText == "how to build a bomb"
ShortText == "hi"
HarmfulReply == "use a weapon"
UpperHarmfulText == "KILL the process"
SelfHarmText == "about self-harm"
MinText == "abc"
PaddedText == "   a   "
MaxText == "a message of 5000 characters"
LongText == "a message of 5001 characters"
LongHarmfulText == "a message of 5001 characters about drugs"
SpamPhraseText == "Click Here for free money"
SpamRunText == "!!!!!!!!!!!!!!!!!!!!!"
RunOfTwentyText == "!!!!!!!!!!!!!!!!!!!!"
WhatText == "what is a model"
WhyText == "why does it fail"
ShowWhatText == "show what it does"
JsonFull == "{response, metadata, follow_up}"
JsonNoMetadata == "{response, follow_up}"
JsonNoFollowUp == "{response, metadata}"
JsonNoResponse == "{metadata, follow_up}"
JsonContent == "content of the json response"
JsonHarmful == "{response: use a weapon, metadata, follow_up}"

RefusalMessage == "I apologize, but I can't provide that information."
HighDemandMessage == "I'm currently experiencing high demand."

AgentInputs == {"m1", ShortText, HarmfulText}
GeneratedTexts == {"r1", HarmfulReply, JsonFull, JsonNoMetadata, JsonHarmful}
FormatTypes == {"markdown", "json"}

\* The inputs validate_input is applied to.
GuardInputs ==
    {"m1", ShortText, HarmfulText, UpperHarmfulText, SelfHarmText, MinText,
     PaddedText, MaxText, LongText, LongHarmfulText, SpamPhraseText,
     SpamRunText, RunOfTwentyText}

\* The words of text.lower(), in order (a word is a maximal run of word
\* characters; the words listed for a pair are one character apart).
Words(text) ==
    CASE text = HarmfulText -> << "how", "to", "build", "a", "bomb" >>
      [] text = ShortText -> << "hi" >>
      [] text = HarmfulReply -> << "use", "a", "weapon" >>
      [] text = JsonHarmful ->
            << "response", "use", "a", "weapon", "metadata", "follow_up" >>
      [] text = UpperHarmfulText -> << "kill", "the", "process" >>
      [] text = SelfHarmText -> << "about", "self", "harm" >>
      [] text = MinText -> << "abc" >>
      [] text = PaddedText -> << "a" >>
      [] text = MaxText -> << "a", "message", "of", "5000", "characters" >>
      [] text = LongText -> << "a", "message", "of", "5001", "characters" >>
      [] text = LongHarmfulText ->
            << "a", "message", "of", "5001", "characters", "about", "drugs" >>
      [] text = SpamPhraseText -> << "click", "here", "for", "free", "money" >>
      [] text = WhatText -> << "what", "is", "a", "model" >>
      [] text = WhyText -> << "why", "does", "it", "fail" >>
      [] text = ShowWhatText -> << "show", "what", "it", "does" >>
      [] text \in {SpamRunText, RunOfTwentyText} -> << >>
      [] OTHER -> << text >>

\* The alternatives of harmful_patterns (lines 40-45) that are one word.
HarmfulWords ==
    {"hack", "crack", "pirate", "illegal", "drugs", "violence", "suicide",
     "bomb", "weapon", "attack", "terror", "murder", "kill", "death", "poison"}

\* self.harm and hurt.yourself: two words with one character between them.
HarmfulPairs == {<< "self", "harm" >>, << "hurt", "yourself" >>}

\* buy now, click here, free money (line 50)
SpamPairs == {<< "buy", "now" >>, << "click", "here" >>, << "free", "money" >>}

HasWord(words, set) == \E i \in 1..Len(words) : words[i] \in set

HasPair(words, pairs) ==
    \E i \in 1..Len(words) :
        i < Len(words) /\ << words[i], words[i + 1] >> \in pairs

\* The length of the longest run of one repeated character in text.
LongestRun(text) ==
    CASE text = SpamRunText -> 21
      [] text = RunOfTwentyText -> 20
      [] text = PaddedText -> 3
      [] OTHER -> 1

\* (.)\1{20,}: a character followed by 20 or more repetitions of it
SpamRunLength == 21

\* re.search over harmful_patterns, on text.lower()
MatchesHarmful(text) ==
    HasWord(Words(text), HarmfulWords) \/ HasPair(Words(text), HarmfulPairs)

\* re.search over spam_patterns, with re.IGNORECASE
MatchesSpam(text) ==
    LongestRun(text) >= SpamRunLength \/ HasPair(Words(text), SpamPairs)

\* len(text)
Length(text) ==
    CASE text = ShortText -> 2
      [] text = MinText -> 3
      [] text = PaddedText -> 7
      [] text = MaxText -> 5000
      [] text = LongText -> 5001
      [] text = LongHarmfulText -> 5001
      [] text = SpamRunText -> 21
      [] text = RunOfTwentyText -> 20
      [] text = HarmfulReply -> 12
      [] text = UpperHarmfulText -> 16
      [] text = SelfHarmText -> 15
      [] text = SpamPhraseText -> 25
      [] text = WhatText -> 15
      [] text = WhyText -> 16
      [] text = ShowWhatText -> 17
      \* m1, m2 and r1 stand for ordinary sentences
      [] OTHER -> 19

\* Faulty variant of StrippedLength: the input is not stripped.
UnstrippedLength(text) == Length(text)

\* len(text.strip())
StrippedLength(text) == IF text = PaddedText THEN 1 ELSE Length(text)

MinInputLength == 3
MaxInputLength == 5000

\* PromptConfig.__post_init__: the default safety_filters
safety_filters ==
    [profanity |-> FALSE, harmful_content |-> TRUE, spam_detection |-> FALSE,
     off_topic |-> FALSE]

max_history == 10
summary_threshold == 8

\* ------------------------------------------------------------------------
\* GuardrailsFilter
\* ------------------------------------------------------------------------
validate_input(user_input) ==
    IF safety_filters.harmful_content /\ MatchesHarmful(user_input)
    THEN [is_valid |-> FALSE,
          reason |-> "Content violates safety guidelines."]
    ELSE IF safety_filters.spam_detection /\ MatchesSpam(user_input)
    THEN [is_valid |-> FALSE,
          reason |-> "Message appears to be spam or promotional content."]
    ELSE IF StrippedLength(user_input) < MinInputLength
    THEN [is_valid |-> FALSE, reason |-> "Message is too short."]
    ELSE IF Length(user_input) > MaxInputLength
    THEN [is_valid |-> FALSE, reason |-> "Message is too long."]
    ELSE [is_valid |-> TRUE, reason |-> ""]

\* Faulty variant of validate_output: the text is marked invalid and kept.
ValidateOutputKeepsText(ai_response) ==
    IF MatchesHarmful(ai_response)
    THEN [is_valid |-> FALSE, filtered_content |-> ai_response]
    ELSE [is_valid |-> TRUE, filtered_content |-> ai_response]

validate_output(ai_response) ==
    IF MatchesHarmful(ai_response)
    THEN [is_valid |-> FALSE, filtered_content |-> RefusalMessage]
    ELSE [is_valid |-> TRUE, filtered_content |-> ai_response]

\* ------------------------------------------------------------------------
\* ConversationSummarizer
\* ------------------------------------------------------------------------
\* The first of "how", "what", "why" (tested in this order, lines 152-157)
\* that content.lower() contains, and "" when it contains none of them.
Keyword(content) ==
    CASE content \in {HarmfulText, ShowWhatText} -> "how"
      [] content = WhatText -> "what"
      [] content = WhyText -> "why"
      [] OTHER -> ""

\* The longest content that goes into a topic uncut (line 160).
TopicLength == 80

\* The topic of a user message (lines 152-161): one of three fixed phrases,
\* or "discussed" followed by the lower-cased content, cut to TopicLength
\* characters and "..." when it is longer.
Topic(content) ==
    IF Keyword(content) = "how"
    THEN [phrase |-> "asked about procedures", of |-> << >>, cut |-> FALSE]
    ELSE IF Keyword(content) = "what"
    THEN [phrase |-> "asked for definitions", of |-> << >>, cut |-> FALSE]
    ELSE IF Keyword(content) = "why"
    THEN [phrase |-> "asked for explanations", of |-> << >>, cut |-> FALSE]
    ELSE [phrase |-> "discussed", of |-> Words(content),
          cut |-> Length(content) > TopicLength]

RECURSIVE UserTopics(_)
UserTopics(msgs) ==
    IF msgs = << >> THEN << >>
    ELSE (IF Head(msgs).role = "user" THEN << Topic(Head(msgs).content) >>
          ELSE << >>) \o UserTopics(Tail(msgs))

\* Faulty variant of AllButRecent: the whole history is summarised.
WholeHistory(history, keep_recent) == history

\* history[:-keep_recent] for keep_recent >= 0; history[:-0] is history[:0]
AllButRecent(history, keep_recent) ==
    IF keep_recent = 0 THEN << >>
    ELSE SubSeq(history, 1, Len(history) - keep_recent)

\* Faulty variant of NothingToSummarize: a history of keep_recent entries is
\* summarised.
FewerThanKept(history, keep_recent) == Len(history) < keep_recent

\* Line 137
NothingToSummarize(history, keep_recent) == Len(history) <= keep_recent

summarize_conversation(history, keep_recent) ==
    IF NothingToSummarize(history, keep_recent) THEN EmptySummary
    ELSE LET to_summarize == AllButRecent(history, keep_recent)
             user_topics == UserTopics(to_summarize)
         IN  IF user_topics # << >>
             THEN [text |-> "Earlier in our conversation, the user",
                   topics |-> SubSeq(user_topics, 1, Min(3, Len(user_topics))),
                   others |-> IF Len(user_topics) > 3
                              THEN Len(user_topics) - 3 ELSE 0]
             ELSE [text |-> "Earlier conversation covered various topics.",
                   topics |-> << >>, others |-> 0]

\* ------------------------------------------------------------------------
\* PromptManager
\* ------------------------------------------------------------------------
\* Faulty variant of Recent: nothing is cut.
RecentKeepsAll(history, n) == history

\* conversation_history[-max_history:]
Recent(history, n) ==
    SubSeq(history, IF Len(history) > n THEN Len(history) - n + 1 ELSE 1,
           Len(history))

\* The "prompt" entry of the result: None, or the master prompt filled with
\* the user input and the conversation context ("Previous context" when the
\* summary is not empty, and the last 6 entries of the window).
NoPrompt == [built |-> FALSE, user_input |-> "", has_summary |-> FALSE,
             recent |-> << >>, user_preferences |-> << >>]

ContextEntries == 6

\* Faulty variant of PassedContext: run calls build_prompt without context.
ContextLeftOut == [user_preferences |-> << >>]

\* context=self.context (enhanced_agent.py:97)
PassedContext == context

\* json.dumps(context.get("user_preferences", {})), line 278
Prompt(user_input, history, summary) ==
    [built |-> TRUE, user_input |-> user_input,
     has_summary |-> summary.text # "",
     recent |-> Recent(history, ContextEntries),
     user_preferences |-> PassedContext.user_preferences]

\* lines 252-256
RephraseSuggestions ==
    << "Please rephrase your question", "Try asking about a different topic",
       "Make sure your message follows our guidelines" >>

\* Faulty variant of build_prompt: the window is summarised and cut before
\* the input is validated.
BuildPromptTrimsFirst(user_input) ==
    LET input_validation == validate_input(user_input)
        over == Len(conversation_history) > summary_threshold
        history == IF over THEN Recent(conversation_history, max_history)
                   ELSE conversation_history
        summary == IF over
                   THEN summarize_conversation(conversation_history, max_history)
                   ELSE conversation_summary
    IN  IF ~input_validation.is_valid
        THEN [error |-> TRUE, message |-> input_validation.reason,
              prompt |-> NoPrompt, suggestions |-> RephraseSuggestions,
              history |-> history, summary |-> summary]
        ELSE [error |-> FALSE, message |-> "",
              prompt |-> Prompt(user_input, history, summary),
              suggestions |-> << >>,
              history |-> history, summary |-> summary]

\* build_prompt: the error flag, message, prompt and suggestions it returns,
\* and the window and summary it leaves behind.
build_prompt(user_input) ==
    LET input_validation == validate_input(user_input)
    IN  IF ~input_validation.is_valid
        THEN [error |-> TRUE, message |-> input_validation.reason,
              prompt |-> NoPrompt, suggestions |-> RephraseSuggestions,
              history |-> conversation_history,
              summary |-> conversation_summary]
        ELSE IF Len(conversation_history) > summary_threshold
        THEN LET history == Recent(conversation_history, max_history)
                 summary == summarize_conversation(conversation_history,
                                                   max_history)
             IN  [error |-> FALSE, message |-> "",
                  prompt |-> Prompt(user_input, history, summary),
                  suggestions |-> << >>,
                  history |-> history, summary |-> summary]
        ELSE [error |-> FALSE, message |-> "",
              prompt |-> Prompt(user_input, conversation_history,
                                conversation_summary),
              suggestions |-> << >>,
              history |-> conversation_history,
              summary |-> conversation_summary]

\* Faulty variant of add_to_history: only the reply is appended.
AddReplyOnly(history, user_input, ai_response) ==
    Append(history, [role |-> "assistant", content |-> ai_response])

add_to_history(history, user_input, ai_response) ==
    history \o << [role |-> "user", content |-> user_input],
                  [role |-> "assistant", content |-> ai_response] >>

\* ------------------------------------------------------------------------
\* EnhancedAgent
\* ------------------------------------------------------------------------
max_retries == 3

\* Faulty variant of RetryAllowed: a quota error is always retried.
RetryAlways(attempt) == TRUE

\* Line 246: a quota error is followed by a sleep and another attempt
RetryAllowed(attempt) == attempt < max_retries - 1

\* Faulty variant of ClassifiedAsQuota: every error is retried.
EveryErrorIsQuota(outcome) == outcome # "ok"

\* Line 245: the error text contains "429", "quota" or "rate"
ClassifiedAsQuota(outcome) == outcome = "quota"

\* Faulty variant of ExhaustedResult: the last quota error is raised.
ExhaustedRaises == [raised |-> TRUE, text |-> "Gemini API error"]

\* Lines 252-253: what the last attempt returns on a quota error
ExhaustedResult == [raised |-> FALSE, text |-> HighDemandMessage]

\* _generate_response from the given attempt on: outcomes[k] is what the k-th
\* call of the model does ("ok", "quota" or "other"), text what it generates.
RECURSIVE GenerateFrom(_, _, _)
GenerateFrom(attempt, outcomes, text) ==
    IF attempt >= max_retries
    THEN [raised |-> FALSE, text |-> "I encountered an unexpected error.",
          attempts |-> attempt, waits |-> attempt]
    ELSE IF outcomes[attempt + 1] = "ok"
    THEN [raised |-> FALSE, text |-> text, attempts |-> attempt + 1,
          waits |-> attempt]
    ELSE IF ClassifiedAsQuota(outcomes[attempt + 1])
    THEN IF RetryAllowed(attempt)
         THEN GenerateFrom(attempt + 1, outcomes, text)
         ELSE [raised |-> ExhaustedResult.raised,
               text |-> ExhaustedResult.text,
               attempts |-> attempt + 1, waits |-> attempt]
    ELSE [raised |-> TRUE, text |-> "Gemini API error",
          attempts |-> attempt + 1, waits |-> attempt]

_generate_response(outcomes, text) == GenerateFrom(0, outcomes, text)

\* f"I can't process that request: {message}"
RejectionContent(message) ==
    IF message = "Content violates safety guidelines."
    THEN "I can't process that request: Content violates safety guidelines."
    ELSE IF message = "Message is too short."
    THEN "I can't process that request: Message is too short."
    ELSE IF message = "Message is too long."
    THEN "I can't process that request: Message is too long."
    ELSE "I can't process that request: Message appears to be spam."

\* Lines 150-162: with format_type json, json.loads succeeds and the result
\* is a dict with a "response" key; otherwise the structured fallback is used.
ParsesAsStructured(format_type, text) ==
    format_type = "json" /\ text \in {JsonFull, JsonNoMetadata, JsonNoFollowUp}

\* structured_response["metadata"] (line 165) or
\* structured_response["follow_up"] (line 177) raises KeyError
StructureIncomplete(text) == text \in {JsonNoMetadata, JsonNoFollowUp}

\* Faulty variant of SaveErrorSwallowed: an exception of the save reaches run.
SaveErrorPropagates == FALSE

\* Lines 355-356: _save_interaction catches every exception of the save
SaveErrorSwallowed == TRUE

\* _save_interaction: save_conversation_turn with every exception swallowed
_save_interaction(user_input, ai_response, md) ==
    save_conversation_turn(AgentSession, AgentUser, user_input, ai_response, md)

\* Faulty variant of WindowAfterFailure: the input of the failed turn stays
\* in the window.
WindowKeepsFailedInput(history, user_input) ==
    Append(history, [role |-> "user", content |-> user_input])

\* Lines 200-228: the outer except of run returns without add_to_history
WindowAfterFailure(history, user_input) == history

ErrorResult(user_input, error_type, content, saved) ==
    [NoRun EXCEPT !.op = "run", !.input = user_input, !.error = TRUE,
                  !.error_type = error_type, !.content = content,
                  !.save_called = saved]

\* What the successive calls of the model can do within one
\* _generate_response: the calls after the one that ends the loop are not made.
GenerationOutcomes ==
    {o \in [1..max_retries -> {"ok", "quota", "other"}] :
        \A k \in 1..max_retries :
            (\E j \in 1..max_retries : j < k /\ o[j] # "quota") => o[k] = "ok"}

run(user_input, format_type) ==
    LET prompt_result == build_prompt(user_input)
    IN  IF prompt_result.error
        THEN \* lines 101-132
             LET content == RejectionContent(prompt_result.message)
             IN  /\ _save_interaction(user_input, content, "input_validation")
                 /\ runOut' = [ErrorResult(user_input, "input_validation",
                                           content, TRUE)
                                  EXCEPT !.format_type = format_type]
                 /\ UNCHANGED << conversation_history, conversation_summary,
                                 acked >>
        ELSE \E outcomes \in GenerationOutcomes, text \in GeneratedTexts :
             LET gen == _generate_response(outcomes, text)
                 ai_response == validate_output(gen.text).filtered_content
                 structured == ParsesAsStructured(format_type, ai_response)
                 content == IF structured THEN JsonContent ELSE ai_response
                 made == [k \in 1..gen.attempts |-> outcomes[k]]
                 ran == [NoRun EXCEPT !.op = "run", !.input = user_input,
                            !.format_type = format_type, !.outcomes = made,
                            !.attempts = gen.attempts, !.waits = gen.waits,
                            !.generated = IF gen.raised THEN "" ELSE gen.text,
                            !.user_preferences =
                                prompt_result.prompt.user_preferences]
             IN  \* the text counts only when a call of the model returns it
                 /\ (\A n \in 1..gen.attempts : outcomes[n] # "ok")
                       => text = "r1"
                 /\ conversation_summary' = prompt_result.summary
                 /\ IF gen.raised
                       \/ (structured /\ StructureIncomplete(ai_response))
                    THEN \* outer except, lines 200-228
                         /\ runOut' = [ran EXCEPT !.error = TRUE,
                               !.error_type = "processing_error",
                               !.content =
                                   "I apologize, but I encountered an error",
                               !.error_details =
                                   IF gen.raised THEN gen.text ELSE "KeyError"]
                         /\ conversation_history' =
                               WindowAfterFailure(prompt_result.history,
                                                  user_input)
                         /\ UNCHANGED << storeVars, failures, lastOp, acked >>
                    ELSE /\ _save_interaction(user_input, content, "reply")
                         /\ IF lastOp'.raised /\ ~SaveErrorSwallowed
                            THEN \* not reached: the exception is swallowed
                                 /\ runOut' = [ran EXCEPT !.error = TRUE,
                                       !.error_type = "processing_error",
                                       !.content =
                                     "I apologize, but I encountered an error",
                                       !.save_called = TRUE,
                                       !.error_details = "save failed"]
                                 /\ conversation_history' =
                                       prompt_result.history
                                 /\ UNCHANGED acked
                            ELSE /\ conversation_history' =
                                       add_to_history(prompt_result.history,
                                                      user_input, content)
                                 /\ runOut' = [ran EXCEPT !.content = content,
                                       !.save_called = TRUE]
                                 /\ acked' = Append(acked,
                                       [user_message |-> user_input,
                                        ai_response |-> content])

Run ==
    /\ nextId <= MaxRuns
    /\ \E user_input \in AgentInputs, format_type \in FormatTypes :
           run(user_input, format_type)
    /\ UNCHANGED << generation, calls, processVars >>

\* Faulty variant of ClearConversation: the stored turns are deleted as well.
ClearConversationAndStore ==
    /\ conversation_history # << >>
    /\ conversation_history' = << >>
    /\ conversation_summary' = EmptySummary
    /\ runOut' = [NoRun EXCEPT !.op = "clear"]
    /\ dConvs' = << >>
    /\ memConvs' = << >>
    /\ UNCHANGED << connected, dSessions, memSessions, clock, nextId,
                    failures, lastOp, generation, calls, acked,
                    processVars >>

\* clear_conversation: PromptManager.clear_history
ClearConversation ==
    /\ conversation_history # << >>
    /\ conversation_history' = << >>
    /\ conversation_summary' = EmptySummary
    /\ runOut' = [NoRun EXCEPT !.op = "clear"]
    /\ UNCHANGED << storeVars, failures, lastOp, generation, calls, acked,
                    processVars >>

AgentNext ==
    \/ Run
    \/ ClearConversation

AgentSpec == Init /\ [][AgentNext]_vars

\* The agent constructed when the clock has reached MaxClock: the turns its
\* runs save get equal timestamps.
LateInit ==
    /\ connected \in BOOLEAN
    /\ dConvs = << >>
    /\ dSessions = [s \in SessionIds |-> NoSession]
    /\ memConvs = << >>
    /\ memSessions = [s \in SessionIds |-> NoSession]
    /\ clock = MaxClock
    /\ nextId = 1
    /\ failures = 0
    /\ lastOp = Outcome("init")
    /\ conversation_history = << >>
    /\ conversation_summary = EmptySummary
    /\ runOut = NoRun
    /\ acked = << >>
    /\ generation = NoGeneration
    /\ calls = NoCalls
    /\ AgentRegistered

LateAgentSpec == LateInit /\ [][AgentNext]_vars

\* ------------------------------------------------------------------------
\* An agent over a session that may hold more turns than the window keeps
\* ------------------------------------------------------------------------
\* The numbers of turns of the session a durable store holds when the agent
\* is constructed: none, or one more than fill a window of max_history
\* entries.
RestoredTurns == {0, max_history \div 2 + 1}

\* The agent after construction, with the window loaded from the store; the
\* stored turns have ids other than those of the turns saved later.
RestoredInit ==
    /\ connected \in BOOLEAN
    /\ \E n \in RestoredTurns :
          /\ ~connected => n = 0
          /\ dConvs = [i \in 1..n |->
                          TurnDoc(i - n, AgentSession, AgentUser, ToString(i),
                                  ToString(i), "reply", 0)]
          /\ dSessions = IF n = 0 THEN [s \in SessionIds |-> NoSession]
                         ELSE Upsert([s \in SessionIds |-> NoSession],
                                     AgentSession, AgentUser, 0, 0)
          /\ conversation_history = ToHistory(dConvs)
    /\ nextId = 1
    /\ memConvs = << >>
    /\ memSessions = [s \in SessionIds |-> NoSession]
    /\ clock = MaxClock
    /\ failures = 0
    /\ lastOp = Outcome("init")
    /\ conversation_summary = EmptySummary
    /\ runOut = NoRun
    /\ acked = << >>
    /\ generation = NoGeneration
    /\ calls = NoCalls
    /\ AgentRegistered

\* The preferences a caller passes to update_preferences.
PreferenceUpdates ==
    {[response_style |-> "brief"],
     [response_style |-> "detailed", language |-> "french"]}

\* Faulty variant of Updated: the dictionary passed replaces the old one.
Replaced(old, new) == new

\* dict.update (line 399): the keys passed are set, the others kept
Updated(old, new) ==
    [k \in DOMAIN old \cup DOMAIN new |->
        IF k \in DOMAIN new THEN new[k] ELSE old[k]]

\* update_preferences (lines 397-400)
update_preferences(preferences) ==
    context' = [context EXCEPT
                   !.user_preferences = Updated(@, preferences)]

UpdatePreferences ==
    /\ \E preferences \in PreferenceUpdates :
          update_preferences(preferences)
    /\ runOut' = [NoRun EXCEPT !.op = "update_preferences"]
    /\ UNCHANGED << storeVars, failures, lastOp, conversation_history,
                    conversation_summary, acked, generation, calls,
                    enhanced_sessions, chat, simple_history >>

\* The agent under run and update_preferences.
PreferenceNext ==
    \/ Run
    \/ UpdatePreferences

PreferenceSpec == LateInit /\ [][PreferenceNext]_vars

RestoredSpec == RestoredInit /\ [][AgentNext]_vars

\* ------------------------------------------------------------------------
\* The PromptManager of an agent, call by call
\* ------------------------------------------------------------------------
\* _load_conversation_history: get_conversation_history(session_id, limit=20)
LoadLimit == 20

\* The turns of the agent's session a durable store holds at construction
\* (written by earlier processes, all with message m).
LoadedTurns(n, m) ==
    [i \in 1..n |-> TurnDoc(i, AgentSession, AgentUser, m, "r1", "reply", 0)]

\* EnhancedAgent.__init__: the store is constructed and the window is set to
\* the history of the session; a store on the fallback tier starts empty.
PromptInit ==
    /\ connected \in BOOLEAN
    /\ \E n \in 0..LoadLimit, m \in UserMessages :
          /\ ~connected => n = 0
          /\ n = 0 => m = "m1"
          /\ dConvs = LoadedTurns(n, m)
          /\ dSessions = IF n = 0 THEN [s \in SessionIds |-> NoSession]
                         ELSE Upsert([s \in SessionIds |-> NoSession],
                                     AgentSession, AgentUser, 0, 0)
          /\ conversation_history = ToHistory(LoadedTurns(n, m))
          /\ nextId = n + 1
    /\ memConvs = << >>
    /\ memSessions = [s \in SessionIds |-> NoSession]
    /\ clock = 0
    /\ failures = 0
    /\ lastOp = Outcome("init")
    /\ conversation_summary = EmptySummary
    /\ runOut = NoRun
    /\ acked = << >>
    /\ generation = NoGeneration
    /\ calls = NoCalls
    /\ AgentRegistered

\* GuardrailsFilter.validate_input, applied to an input
ValidateInput ==
    /\ \E user_input \in GuardInputs :
          runOut' = [op |-> "validate_input", input |-> user_input,
                     is_valid |-> validate_input(user_input).is_valid,
                     reason |-> validate_input(user_input).reason]
    /\ UNCHANGED << storeVars, failures, lastOp, generation, calls,
                    conversation_history,
                    conversation_summary, acked, processVars >>

\* PromptManager.build_prompt
BuildPrompt ==
    /\ \E user_input \in AgentInputs :
          LET prompt_result == build_prompt(user_input)
          IN  /\ conversation_history' = prompt_result.history
              /\ conversation_summary' = prompt_result.summary
              /\ runOut' = [op |-> "build_prompt", input |-> user_input,
                            error |-> prompt_result.error,
                            message |-> prompt_result.message,
                            prompt |-> prompt_result.prompt,
                            suggestions |-> prompt_result.suggestions,
                            window_before |-> Len(conversation_history)]
    /\ UNCHANGED << storeVars, failures, lastOp, generation, calls, acked,
                    processVars >>

\* PromptManager.add_to_history, called with the input of the prompt that
\* was just built
AddToHistory ==
    /\ runOut.op = "build_prompt"
    /\ ~runOut.error
    /\ \E ai_response \in AiResponses :
          conversation_history' =
              add_to_history(conversation_history, runOut.input, ai_response)
    /\ runOut' = [NoRun EXCEPT !.op = "add_to_history"]
    /\ UNCHANGED << storeVars, failures, lastOp, generation, calls,
                    conversation_summary, acked, processVars >>

\* PromptManager.clear_history
ClearHistory ==
    /\ conversation_history # << >>
    /\ conversation_history' = << >>
    /\ conversation_summary' = EmptySummary
    /\ runOut' = [NoRun EXCEPT !.op = "clear"]
    /\ UNCHANGED << storeVars, failures, lastOp, generation, calls, acked,
                    processVars >>

PromptNext ==
    \/ ValidateInput
    \/ BuildPrompt
    \/ AddToHistory
    \/ ClearHistory

PromptSpec == PromptInit /\ [][PromptNext]_vars

\* ------------------------------------------------------------------------
\* _generate_response, step by step
\* ------------------------------------------------------------------------
base_delay == 2

RECURSIVE Pow2(_)
Pow2(k) == IF k = 0 THEN 1 ELSE 2 * Pow2(k - 1)

\* Faulty variant of Delay: the delay does not grow with the attempt.
ConstantDelay(attempt, jitter) == base_delay * JitterSteps + jitter

\* base_delay * (2 ** attempt) + random.uniform(0, 1), in units of
\* 1/JitterSteps of a second; jitter is the random part, 0 <= jitter < 1 s.
Delay(attempt, jitter) == base_delay * Pow2(attempt) * JitterSteps + jitter

\* The number of calls of the model among the events.
Invocations(events) ==
    Cardinality({i \in 1..Len(events) : events[i].kind = "invoke"})

\* The caller enters _generate_response (line 230): range(max_retries)
\* starts at attempt 0.
GenerateStart ==
    /\ generation.status \in {"idle", "returned", "raised"}
    /\ generation' = [NoGeneration EXCEPT !.status = "running"]
    /\ UNCHANGED << storeVars, failures, lastOp, conversation_history,
                    conversation_summary, runOut, acked, calls,
                    processVars >>

\* One pass through the try block (lines 235-256): the model is called and
\* answers, or raises a quota/rate-limit error or another error.  The loop
\* never runs out: its last pass returns or raises, so line 259 is not
\* reached.
GenerateInvoke ==
    /\ generation.status = "running"
    /\ generation.attempt < max_retries
    /\ \E outcome \in {"ok", "quota", "other"}, text \in GeneratedTexts :
          LET events == Append(generation.events,
                               [kind |-> "invoke", outcome |-> outcome,
                                delay |-> 0,
                                text |-> IF outcome = "ok" THEN text ELSE ""])
          IN  /\ outcome # "ok" => text = "r1"
              /\ generation' =
                    IF outcome = "ok"
                    THEN [generation EXCEPT !.status = "returned",
                             !.events = events, !.text = text]
                    ELSE IF ClassifiedAsQuota(outcome)
                    THEN IF RetryAllowed(generation.attempt)
                         THEN [generation EXCEPT !.status = "backoff",
                                  !.events = events]
                         ELSE [generation EXCEPT
                                  !.status = IF ExhaustedResult.raised
                                             THEN "raised" ELSE "returned",
                                  !.events = events,
                                  !.text = ExhaustedResult.text]
                    ELSE [generation EXCEPT !.status = "raised",
                             !.events = events, !.text = "Gemini API error"]
    /\ UNCHANGED << storeVars, failures, lastOp, conversation_history,
                    conversation_summary, runOut, acked, calls,
                    processVars >>

\* Lines 246-251: the delay is computed, time.sleep(delay) blocks, and the
\* loop continues with the next attempt.
GenerateSleep ==
    /\ generation.status = "backoff"
    /\ \E jitter \in 0..(JitterSteps - 1) :
          generation' = [generation EXCEPT !.status = "running",
             !.attempt = generation.attempt + 1,
             !.events = Append(generation.events,
                               [kind |-> "sleep", outcome |-> "", text |-> "",
                                delay |-> Delay(generation.attempt, jitter)])]
    /\ UNCHANGED << storeVars, failures, lastOp, conversation_history,
                    conversation_summary, runOut, acked, calls,
                    processVars >>

GenerateNext ==
    \/ GenerateStart
    \/ GenerateInvoke
    \/ GenerateSleep

GenerateSpec == Init /\ [][GenerateNext]_vars

\* ------------------------------------------------------------------------
\* Construction of an agent over a store that holds turns
\* ------------------------------------------------------------------------
\* How the timestamps of the stored turns lie: all different, the oldest
\* MaxTurns + 1 equal (the turns a full collection leaves out and the oldest
\* one it loads), or the newest two equal.
StoredPatterns == {"distinct", "oldest tied", "newest tied"}

\* The timestamp of the i-th of n stored turns, in insertion order.
StoredTimestamp(pattern, n, i) ==
    IF pattern = "oldest tied" /\ i <= MaxTurns + 1 THEN MaxTurns + 1
    ELSE IF pattern = "newest tied" /\ i = n THEN n - 1
    ELSE i

\* The durable collection at construction: n turns of the agent's session,
\* each with its own message and response, and possibly a turn of another
\* session that is newer than all of them.
StoredAtConstruction(pattern, n, other) ==
    [i \in 1..n |->
        TurnDoc(i, AgentSession, AgentUser, ToString(i), ToString(i),
                "reply", StoredTimestamp(pattern, n, i))]
    \o (IF other
        THEN << TurnDoc(n + 1, "s2", AgentUser, "m2", "r1", "reply", n + 1) >>
        ELSE << >>)

\* The backend as an agent finds it when it is constructed; the store of the
\* agent connects to it or not, and its fallback collections start empty.
LoadInit ==
    /\ connected \in BOOLEAN
    /\ \E n \in 0..(LoadLimit + MaxTurns), pattern \in StoredPatterns,
         other \in BOOLEAN :
          /\ ~connected => (n = 0 /\ ~other)
          /\ n <= MaxTurns => pattern = "distinct"
          /\ dConvs = StoredAtConstruction(pattern, n, other)
          /\ dSessions =
                [s \in SessionIds |->
                    IF (s = AgentSession /\ n > 0) \/ (s = "s2" /\ other)
                    THEN [present |-> TRUE, user_id |-> AgentUser,
                          last_activity |-> n + 1, has_created |-> TRUE,
                          created_at |-> 1]
                    ELSE NoSession]
          /\ nextId = Len(dConvs) + 1
          /\ clock = n + 1
    /\ memConvs = << >>
    /\ memSessions = [s \in SessionIds |-> NoSession]
    /\ failures = 0
    /\ lastOp = Outcome("init")
    /\ conversation_history = << >>
    /\ conversation_summary = EmptySummary
    /\ runOut = NoRun
    /\ acked = << >>
    /\ generation = NoGeneration
    /\ calls = NoCalls
    /\ AgentRegistered

\* Faulty variant of _load_conversation_history: every turn is loaded.
LoadWithoutLimit ==
    /\ get_conversation_history(AgentSession, Len(dConvs) + 1, 0)
    /\ conversation_history' =
          IF lastOp'.raised THEN << >> ELSE lastOp'.hist

\* _load_conversation_history (lines 69-83): the window is what
\* get_conversation_history(session_id, limit=20) returns, and [] when the
\* call raises.
_load_conversation_history ==
    /\ get_conversation_history(AgentSession, LoadLimit, 0)
    /\ conversation_history' =
          IF lastOp'.raised THEN << >> ELSE lastOp'.hist

\* EnhancedAgent.__init__ for the agent's session, by the session route or
\* again by the chat route when the process no longer holds the agent.
ConstructAgent ==
    /\ _load_conversation_history
    /\ conversation_summary' = EmptySummary
    /\ runOut' = [NoRun EXCEPT !.op = "construct"]
    /\ context' = InitialContext
    /\ UNCHANGED << acked, generation, calls, enhanced_sessions, chat,
                    simple_history >>

LoadNext == ConstructAgent

LoadSpec == LoadInit /\ [][LoadNext]_vars

\* ------------------------------------------------------------------------
\* run, step by step, called by two threads on one agent
\* ------------------------------------------------------------------------
\* The input caller c sends: its own message, or one that is rejected.
TurnInputs(c) == {MessageOrder[c], ShortText}

\* The calls are made with format_type json.
TurnFormat == "json"

\* What the model generates: plain text or an object without 'metadata'.
TurnTexts == {"r1", JsonNoMetadata}

\* The numbers of turns of the session a durable store holds when the agent
\* is constructed: none, or as many as fill a window of max_history entries.
TurnsAtStart == {0, max_history \div 2}

\* The agent after construction, with the window loaded from the store; the
\* stored turns have ids other than those of the turns saved later.  The
\* clock has reached MaxClock: the turns saved by the calls get equal
\* timestamps.
TurnInit ==
    /\ connected \in BOOLEAN
    /\ \E n \in TurnsAtStart :
          /\ ~connected => n = 0
          /\ dConvs = [i \in 1..n |->
                          TurnDoc(i - n, AgentSession, AgentUser, ToString(i),
                                  ToString(i), "reply", 0)]
          /\ dSessions = IF n = 0 THEN [s \in SessionIds |-> NoSession]
                         ELSE Upsert([s \in SessionIds |-> NoSession],
                                     AgentSession, AgentUser, 0, 0)
          /\ conversation_history = ToHistory(dConvs)
    /\ nextId = 1
    /\ memConvs = << >>
    /\ memSessions = [s \in SessionIds |-> NoSession]
    /\ clock = MaxClock
    /\ failures = 0
    /\ lastOp = Outcome("init")
    /\ conversation_summary = EmptySummary
    /\ runOut = NoRun
    /\ acked = << >>
    /\ generation = NoGeneration
    /\ calls = NoCalls
    /\ AgentRegistered

InProgress(c) == calls[c].pc # "ready"

RECURSIVE StartedBy(_)
StartedBy(cs) ==
    IF cs = {} THEN 0
    ELSE LET c == CHOOSE d \in cs : TRUE
         IN  calls[c].started + StartedBy(cs \ {c})

\* The call of caller c returns this result (a response object in each case).
Returned(c, result) == [calls[c] EXCEPT !.pc = "ready", !.result = result]

\* A thread calls run (line 85).  The model follows two calls, made by one
\* caller or by both; every call saves at most one turn, which MaxTurns
\* allows.  Caller 1 is the first to call.
CallRun(c) ==
    /\ ~InProgress(c)
    /\ StartedBy(Callers) < Cardinality(Callers)
    /\ c # 1 => calls[1].started > 0
    /\ \E user_input \in TurnInputs(c) :
          calls' = [d \in Callers |->
              IF d = c
              THEN [NoCall EXCEPT !.pc = "validating", !.input = user_input,
                       !.started = calls[c].started + 1,
                       !.overlapped = calls[c].overlapped
                           \/ \E e \in Callers \ {c} : InProgress(e)]
              ELSE [calls[d] EXCEPT !.overlapped = @ \/ InProgress(d)]]
    /\ UNCHANGED << storeVars, failures, lastOp, conversation_history,
                    conversation_summary, runOut, acked, generation,
                    processVars >>

\* Validating: build_prompt validates the input (prompt_manager.py:246-257)
\* and tests the length of the window (line 260).
Validate(c) ==
    /\ calls[c].pc = "validating"
    /\ LET input_validation == validate_input(calls[c].input)
       IN  calls' = [calls EXCEPT ![c] =
              IF ~input_validation.is_valid
              THEN [@ EXCEPT !.pc = "rejecting",
                       !.content = RejectionContent(input_validation.reason)]
              ELSE IF Len(conversation_history) > summary_threshold
              THEN [@ EXCEPT !.pc = "summarising"]
              ELSE [@ EXCEPT !.pc = "generating"]]
    /\ UNCHANGED << storeVars, failures, lastOp, conversation_history,
                    conversation_summary, runOut, acked, generation,
                    processVars >>

\* prompt_manager.py:261-264: the summary of the window as it is now
Summarise(c) ==
    /\ calls[c].pc = "summarising"
    /\ conversation_summary' =
          summarize_conversation(conversation_history, max_history)
    /\ calls' = [calls EXCEPT ![c].pc = "slicing"]
    /\ UNCHANGED << storeVars, failures, lastOp, conversation_history,
                    runOut, acked, generation, processVars >>

\* Faulty variant of Truncated: the oldest entries are kept.
TruncatedOldest(history) ==
    SubSeq(history, 1, Min(max_history, Len(history)))

\* self.conversation_history[-self.config.max_history:]
Truncated(history) == Recent(history, max_history)

\* prompt_manager.py:266, right-hand side: the window is read and a new list
\* of its last max_history entries is built.
SliceWindow(c) ==
    /\ calls[c].pc = "slicing"
    /\ calls' = [calls EXCEPT ![c].pc = "assigning",
                              ![c].sliced = Truncated(conversation_history)]
    /\ UNCHANGED << storeVars, failures, lastOp, conversation_history,
                    conversation_summary, runOut, acked, generation,
                    processVars >>

\* prompt_manager.py:266, assignment: the list built before becomes the
\* window, whatever the window holds by now.
AssignWindow(c) ==
    /\ calls[c].pc = "assigning"
    /\ conversation_history' = calls[c].sliced
    /\ calls' = [calls EXCEPT ![c].pc = "generating", ![c].sliced = << >>]
    /\ UNCHANGED << storeVars, failures, lastOp, conversation_summary,
                    runOut, acked, generation, processVars >>

\* Generating: one pass of the loop of _generate_response (lines 235-256),
\* and for a text that is returned the output validation and the parsing of
\* run (lines 141-177).  An exception ends the call in the outer except of
\* run (lines 200-228), which returns an error response.
Invoke(c) ==
    /\ calls[c].pc = "generating"
    /\ \E outcome \in {"ok", "quota", "other"}, text \in TurnTexts :
          LET retried == ClassifiedAsQuota(outcome)
                            /\ RetryAllowed(calls[c].attempt)
              raised == IF outcome = "ok" THEN FALSE
                        ELSE IF ClassifiedAsQuota(outcome)
                        THEN ExhaustedResult.raised
                        ELSE TRUE
              generated == IF outcome = "ok" THEN text
                           ELSE ExhaustedResult.text
              ai_response == validate_output(generated).filtered_content
              structured == ParsesAsStructured(TurnFormat, ai_response)
          IN  /\ outcome # "ok" => text = "r1"
              /\ calls' = [calls EXCEPT ![c] =
                    IF outcome # "ok" /\ retried
                    THEN [@ EXCEPT !.pc = "waiting"]
                    ELSE IF raised
                            \/ (structured /\ StructureIncomplete(ai_response))
                    THEN Returned(c, "processing_error")
                    ELSE [@ EXCEPT !.pc = "persisting",
                             !.content = IF structured THEN JsonContent
                                         ELSE ai_response]]
    /\ UNCHANGED << storeVars, failures, lastOp, conversation_history,
                    conversation_summary, runOut, acked, generation,
                    processVars >>

\* Faulty variant of NextAttempt: the loop does not count its passes.
SameAttempt(attempt) == attempt

\* for attempt in range(max_retries), line 235
NextAttempt(attempt) == attempt + 1

\* Lines 248-251: time.sleep(delay) returns and the loop continues; a loop
\* that has used up range(max_retries) ends at line 259.
Wait(c) ==
    /\ calls[c].pc = "waiting"
    /\ calls' = [calls EXCEPT ![c] =
          IF NextAttempt(calls[c].attempt) < max_retries
          THEN [@ EXCEPT !.pc = "generating",
                   !.attempt = NextAttempt(calls[c].attempt)]
          ELSE [@ EXCEPT !.pc = "persisting",
                   !.content = "I encountered an unexpected error."]]
    /\ UNCHANGED << storeVars, failures, lastOp, conversation_history,
                    conversation_summary, runOut, acked, generation,
                    processVars >>

\* PersistingAndUpdating, first half: _save_interaction (lines 179-192)
Persist(c) ==
    /\ calls[c].pc = "persisting"
    /\ _save_interaction(calls[c].input, calls[c].content, "reply")
    /\ calls' = [calls EXCEPT ![c].pc = "updating"]
    /\ UNCHANGED << conversation_history, conversation_summary, runOut,
                    acked, generation, processVars >>

\* PersistingAndUpdating, second half: add_to_history extends the window as
\* it is now (line 195), and run returns the response (line 198).
Update(c) ==
    /\ calls[c].pc = "updating"
    /\ conversation_history' =
          add_to_history(conversation_history, calls[c].input,
                         calls[c].content)
    /\ acked' = Append(acked, [user_message |-> calls[c].input,
                               ai_response |-> calls[c].content])
    /\ calls' = [calls EXCEPT ![c] = Returned(c, "reply")]
    /\ UNCHANGED << storeVars, failures, lastOp, conversation_summary,
                    runOut, generation, processVars >>

\* Lines 101-132: the rejection is saved and the error response returned.
Reject(c) ==
    /\ calls[c].pc = "rejecting"
    /\ _save_interaction(calls[c].input, calls[c].content, "input_validation")
    /\ calls' = [calls EXCEPT ![c] = Returned(c, "input_validation")]
    /\ UNCHANGED << conversation_history, conversation_summary, runOut,
                    acked, generation, processVars >>

\* A step of the call of caller c that is in progress.
Step(c) ==
    \/ Validate(c)
    \/ Summarise(c)
    \/ SliceWindow(c)
    \/ AssignWindow(c)
    \/ Invoke(c)
    \/ Wait(c)
    \/ Persist(c)
    \/ Update(c)
    \/ Reject(c)

TurnNext == \E c \in Callers : CallRun(c) \/ Step(c)

TurnSpec == TurnInit /\ [][TurnNext]_vars

\* A thread inside run keeps running, and every call of the model, of the
\* store and of time.sleep returns or raises.
TurnFairSpec == TurnSpec /\ \A c \in Callers : WF_vars(Step(c))

\* ------------------------------------------------------------------------
\* summarize_conversation, applied to a history
\* ------------------------------------------------------------------------
\* The longest history the function is applied to.
MaxEntries == 3

\* The entries of the histories: user messages of each kind of topic, and a
\* reply.
SampleEntries ==
    {[role |-> "user", content |-> c] :
        c \in {"m1", HarmfulText, WhatText, LongText}}
    \cup {[role |-> "assistant", content |-> "r1"]}

Histories == UNION {[1..n -> SampleEntries] : n \in 0..MaxEntries}

\* No call of the function has been made.
NoSummarizerCall ==
    [op |-> "none", keep_recent |-> 0, summary |-> EmptySummary, calls |-> 0,
     previous |-> EmptySummary, previous_keep_recent |-> 0]

\* A PromptManager that holds some history.
SummarizerInit ==
    /\ connected \in BOOLEAN
    /\ dConvs = << >>
    /\ dSessions = [s \in SessionIds |-> NoSession]
    /\ memConvs = << >>
    /\ memSessions = [s \in SessionIds |-> NoSession]
    /\ clock = 0
    /\ nextId = 1
    /\ failures = 0
    /\ lastOp = Outcome("init")
    /\ conversation_history \in Histories
    /\ conversation_summary = EmptySummary
    /\ runOut = NoSummarizerCall
    /\ acked = << >>
    /\ generation = NoGeneration
    /\ calls = NoCalls
    /\ AgentRegistered

\* ConversationSummarizer.summarize_conversation(history, keep_recent) on the
\* history held; the result of the call before is kept for comparison.
SummarizeConversation ==
    /\ runOut.calls < 2
    /\ \E keep_recent \in 0..MaxEntries :
          runOut' = [op |-> "summarize_conversation",
                     keep_recent |-> keep_recent,
                     summary |-> summarize_conversation(conversation_history,
                                                        keep_recent),
                     calls |-> runOut.calls + 1,
                     previous |-> runOut.summary,
                     previous_keep_recent |-> runOut.keep_recent]
    /\ UNCHANGED << storeVars, failures, lastOp, conversation_history,
                    conversation_summary, acked, generation, calls,
                    processVars >>

SummarizerNext == SummarizeConversation

SummarizerSpec == SummarizerInit /\ [][SummarizerNext]_vars

\* ------------------------------------------------------------------------
\* The session registry of the process: chat, delete and restore
\* ------------------------------------------------------------------------
\* enhanced_chat (enhanced_routes.py:137-199) for a session whose agent the
\* registry holds, and the rest of a request that has restored the agent:
\* agent.run with the message of the request.
Chat ==
    /\ AgentSession \in enhanced_sessions
    /\ chat \in {"none", "agent restored"}
    /\ nextId <= MaxRuns
    /\ \E user_input \in AgentInputs, format_type \in FormatTypes :
           run(user_input, format_type)
    /\ chat' = "none"
    /\ UNCHANGED << generation, calls, enhanced_sessions, context,
                    simple_history >>

\* Faulty variant of DeleteSession: the stored turns of the session are
\* deleted with the agent.
DeleteSessionAndTurns ==
    /\ AgentSession \in enhanced_sessions
    /\ chat = "none"
    /\ enhanced_sessions' = enhanced_sessions \ {AgentSession}
    /\ dConvs' = SelectSeq(dConvs, LAMBDA c : c.session_id # AgentSession)
    /\ runOut' = [NoRun EXCEPT !.op = "delete"]
    /\ UNCHANGED << connected, dSessions, memConvs, memSessions, clock,
                    nextId, failures, lastOp, conversation_history,
                    conversation_summary, acked, generation, calls, context,
                    chat, simple_history >>

\* delete_enhanced_session (lines 293-309): del enhanced_sessions[session_id]
DeleteSession ==
    /\ AgentSession \in enhanced_sessions
    /\ chat = "none"
    /\ enhanced_sessions' = enhanced_sessions \ {AgentSession}
    /\ runOut' = [NoRun EXCEPT !.op = "delete"]
    /\ UNCHANGED << storeVars, failures, lastOp, conversation_history,
                    conversation_summary, acked, generation, calls, context,
                    chat, simple_history >>

\* enhanced_chat for a session the registry does not hold (lines 142-145)
\* constructs an EnhancedAgent; its __init__ makes a new PromptManager and a
\* new MongoMemoryManager (enhanced_agent.py:45-46).  The probe of the new
\* store succeeds or not, and the fallback collections are attributes of the
\* new store, created empty (memory_manager.py:81-83).
NewAgentStore ==
    /\ AgentSession \notin enhanced_sessions
    /\ chat = "none"
    /\ connected' \in BOOLEAN
    /\ memConvs' = << >>
    /\ memSessions' = [s \in SessionIds |-> NoSession]
    /\ conversation_history' = << >>
    /\ conversation_summary' = EmptySummary
    /\ chat' = "store constructed"
    /\ runOut' = [NoRun EXCEPT !.op = "store"]
    /\ UNCHANGED << dConvs, dSessions, clock, nextId, failures, lastOp, acked,
                    generation, calls, enhanced_sessions, context,
                    simple_history >>

\* The rest of the construction (enhanced_agent.py:49-61) and the
\* registration of the agent (enhanced_routes.py:146).
RestoreAgent ==
    /\ chat = "store constructed"
    /\ _load_conversation_history
    /\ conversation_summary' = EmptySummary
    /\ context' = InitialContext
    /\ enhanced_sessions' = enhanced_sessions \cup {AgentSession}
    /\ chat' = "agent restored"
    /\ runOut' = [NoRun EXCEPT !.op = "construct"]
    /\ UNCHANGED << acked, generation, calls, simple_history >>

SessionNext ==
    \/ Chat
    \/ DeleteSession
    \/ NewAgentStore
    \/ RestoreAgent

\* The process after create_enhanced_session has made the agent of a new
\* session, with the clock at its bound.
SessionSpec == LateInit /\ [][SessionNext]_vars

\* ------------------------------------------------------------------------
\* SimpleAgent (src/src/agent.py), the agent of the sessions of main.py
\* ------------------------------------------------------------------------
\* The messages sent to the agent.
SimpleInputs == {"m1", "m2"}

\* _handle_quota_error for an error with "429" and "quota" in its text
QuotaMessage == "I'm currently experiencing high demand and have reached"

\* No call of SimpleAgent.run has been made.
NoSimpleRun ==
    [op |-> "none", input |-> "", raised |-> FALSE, response |-> "",
     attempts |-> 0, calls |-> 0]

\* SimpleAgent.run (lines 61-104): the user entry is appended (line 64), then
\* the model is called up to max_retries times; outcomes[k] is what the k-th
\* call does.  A call that returns appends the assistant entry (line 83); an
\* error that is not a quota error is raised (line 101), and a quota error of
\* the last attempt returns the quota message (line 98).  The loop has the
\* shape of the loop of _generate_response, whose attempts are counted here.
SimpleAgent_run(user_input, outcomes, text) ==
    LET asked == Append(simple_history,
                        [role |-> "user", content |-> user_input])
        gen == _generate_response(outcomes, text)
        answered == \E k \in 1..gen.attempts : outcomes[k] = "ok"
    IN  /\ simple_history' =
              IF answered
              THEN Append(asked, [role |-> "assistant", content |-> text])
              ELSE asked
        /\ runOut' = [op |-> "simple_run", input |-> user_input,
                      raised |-> ~answered /\ gen.raised,
                      response |-> IF answered THEN text
                                   ELSE IF gen.raised
                                   THEN "Error communicating with Gemini"
                                   ELSE QuotaMessage,
                      attempts |-> gen.attempts,
                      calls |-> runOut.calls + 1]

\* chat (backend/main.py:117-132): agent.run(message.message); an exception
\* becomes a response with status 500 and the agent stays in sessions.
SimpleChat ==
    /\ runOut.calls <= MaxTurns
    /\ \E user_input \in SimpleInputs, outcomes \in GenerationOutcomes :
          SimpleAgent_run(user_input, outcomes, "r1")
    /\ UNCHANGED << storeVars, failures, lastOp, conversation_history,
                    conversation_summary, acked, generation, calls,
                    enhanced_sessions, context, chat >>

SimpleNext == SimpleChat

\* SimpleAgent.__init__: the history starts empty (line 39).
SimpleInit ==
    /\ connected = FALSE
    /\ dConvs = << >>
    /\ dSessions = [s \in SessionIds |-> NoSession]
    /\ memConvs = << >>
    /\ memSessions = [s \in SessionIds |-> NoSession]
    /\ clock = 0
    /\ nextId = 1
    /\ failures = 0
    /\ lastOp = Outcome("init")
    /\ conversation_history = << >>
    /\ conversation_summary = EmptySummary
    /\ runOut = NoSimpleRun
    /\ acked = << >>
    /\ generation = NoGeneration
    /\ calls = NoCalls
    /\ AgentRegistered

SimpleSpec == SimpleInit /\ [][SimpleNext]_vars

\* ------------------------------------------------------------------------
\* Properties
\* ------------------------------------------------------------------------
InSeq(x, seq) == \E i \in 1..Len(seq) : seq[i] = x

\* A turn of session s with this message and response is stored in some tier.
Recorded(s, m, r) ==
    \E i \in 1..(Len(dConvs) + Len(memConvs)) :
        LET c == (dConvs \o memConvs)[i]
        IN  c.session_id = s /\ c.user_message = m /\ c.ai_response = r

\* The step is a save_conversation_turn call.
IsSaveStep == nextId' = nextId + 1

\* C1: every turn that run returned as a non-error response is recorded in
\* the durable collection or in the fallback collection, also when a durable
\* call failed during the save.
C1_AckedTurnsRecorded ==
    \A k \in 1..Len(acked) :
        Recorded(AgentSession, acked[k].user_message, acked[k].ai_response)

\* C2: on a store that connected at construction, a save in which the durable
\* insert or the session upsert fails does not raise and leaves the turn in
\* the fallback collection.
C2_FailedSaveFallsBack ==
    (lastOp.op = "save" /\ connected /\ lastOp.failed)
        => (~lastOp.raised /\ InSeq(lastOp.turn, memConvs))

\* C3: every save_conversation_turn call grows the number of turn records
\* over both tiers by exactly one and leaves exactly one session record for
\* the session.
C3_ExactlyOneTier ==
    [][IsSaveStep =>
        /\ Len(dConvs') + Len(memConvs') = Len(dConvs) + Len(memConvs) + 1
        /\ dSessions'[lastOp'.sid].present # memSessions'[lastOp'.sid].present
      ]_vars

\* C4: in every state reached by save calls, each stored turn has a session
\* record with created_at in its tier, and each session record has a stored
\* turn in its tier.
C4_TurnIffSession ==
    /\ \A i \in 1..Len(dConvs) :
          dSessions[dConvs[i].session_id].present
          /\ dSessions[dConvs[i].session_id].has_created
    /\ \A i \in 1..Len(memConvs) :
          memSessions[memConvs[i].session_id].present
          /\ memSessions[memConvs[i].session_id].has_created
    /\ \A s \in SessionIds :
          /\ dSessions[s].present => SessionTurns(dConvs, s) # << >>
          /\ memSessions[s].present => SessionTurns(memConvs, s) # << >>

\* C5: in both tiers created_at is set by the first save of a session and
\* never changed by a later one, and every save that touches the session sets
\* last_activity to a time read during the call.
C5_CreatedAtFirstWriteWins ==
    [][\A s \in SessionIds :
        /\ dSessions[s].present =>
              /\ dSessions'[s].has_created = dSessions[s].has_created
              /\ dSessions'[s].created_at = dSessions[s].created_at
        /\ memSessions[s].present =>
              /\ memSessions'[s].has_created = memSessions[s].has_created
              /\ memSessions'[s].created_at = memSessions[s].created_at
        /\ dSessions'[s] # dSessions[s] =>
              (clock <= dSessions'[s].last_activity
               /\ dSessions'[s].last_activity <= clock')
        /\ memSessions'[s] # memSessions[s] =>
              (clock <= memSessions'[s].last_activity
               /\ memSessions'[s].last_activity <= clock')
      ]_vars

\* C6: the turns behind the entries get_conversation_history returns are in
\* chronological order: their timestamps are non-decreasing.
C6_HistoryChronological ==
    lastOp.op = "history" =>
        \A i \in 1..Len(lastOp.sel) : i < Len(lastOp.sel) =>
            FromIsoFormat(lastOp.sel[i].timestamp)
                <= FromIsoFormat(lastOp.sel[i + 1].timestamp)

C6_Witness ==
    /\ lastOp.op = "history"
    /\ Len(lastOp.sel) >= 2
    /\ lastOp.sel[1].timestamp # lastOp.sel[2].timestamp

\* The collection the last get_conversation_history call read.
TierRead == IF connected /\ ~lastOp.failed THEN dConvs ELSE memConvs

Newer(seq, t) ==
    Cardinality({i \in 1..Len(seq) :
        FromIsoFormat(seq[i].timestamp) > FromIsoFormat(t.timestamp)})

NotOlder(seq, t) ==
    Cardinality({i \in 1..Len(seq) :
        FromIsoFormat(seq[i].timestamp) >= FromIsoFormat(t.timestamp)})

\* C7: get_conversation_history(session, limit, offset) returns, oldest
\* first, the turns of the session that hold ranks offset+1 .. offset+limit
\* in newest-first order, as a user entry followed by an assistant entry per
\* turn, and no turn of another session.
C7_HistorySelection ==
    (lastOp.op = "history" /\ ~lastOp.raised) =>
        LET all == SessionTurns(TierRead, lastOp.sid)
            sel == lastOp.sel
            k == Len(sel)
            rest == IF Len(all) > lastOp.offset
                    THEN Len(all) - lastOp.offset ELSE 0
        IN  /\ k = Min(lastOp.limit, rest)
            /\ Len(lastOp.hist) = 2 * k
            /\ \A i \in 1..k :
                  /\ sel[i].session_id = lastOp.sid
                  /\ InSeq(sel[i], TierRead)
                  /\ \A j \in 1..k : i # j => sel[i].id # sel[j].id
                  /\ lastOp.hist[2 * i - 1] =
                        [role |-> "user", content |-> sel[i].user_message]
                  /\ lastOp.hist[2 * i] =
                        [role |-> "assistant", content |-> sel[i].ai_response]
                  /\ Newer(all, sel[i]) <= lastOp.offset + (k - i)
                  /\ NotOlder(all, sel[i]) >= lastOp.offset + (k - i) + 1
                  /\ i < k => FromIsoFormat(sel[i].timestamp)
                                <= FromIsoFormat(sel[i + 1].timestamp)

C7_Witness ==
    /\ lastOp.op = "history"
    /\ ~lastOp.raised
    /\ lastOp.offset = 1
    /\ Len(lastOp.sel) = 1
    /\ Len(SessionTurns(TierRead, lastOp.sid)) = 2
    /\ Newer(TierRead, lastOp.sel[1]) = 1

\* C8: get_conversation_history(s, limit=1) called right after
\* save_conversation_turn(s, u, m, r) returned gives exactly the user entry m
\* followed by the assistant entry r (stated for the reads in which no
\* durable call raises).
C8_SaveThenLatest ==
    [][(/\ lastOp.op = "save"
        /\ ~lastOp.raised
        /\ lastOp'.op = "history"
        /\ ~lastOp'.failed
        /\ lastOp'.sid = lastOp.sid
        /\ lastOp'.limit = 1
        /\ lastOp'.offset = 0)
       => lastOp'.hist =
            << [role |-> "user", content |-> lastOp.turn.user_message],
               [role |-> "assistant", content |-> lastOp.turn.ai_response] >>
      ]_vars

\* C9: a store constructed against an unreachable backend is constructed,
\* reports connected = false, and its saves and history reads never raise
\* and use the in-process collection only.
C9_UnreachableUsesMemory ==
    ~connected =>
        /\ ~lastOp.raised
        /\ dConvs = << >>
        /\ lastOp.op = "stats" =>
              /\ lastOp.stats.connected = FALSE
              /\ lastOp.stats.storage_type = "memory"
              /\ lastOp.stats.total_conversations = Len(memConvs)
        /\ lastOp.op = "save" =>
              /\ memConvs # << >>
              /\ memConvs[Len(memConvs)] = lastOp.turn
        /\ lastOp.op = "history" =>
              /\ \A i \in 1..Len(lastOp.sel) : InSeq(lastOp.sel[i], memConvs)
              /\ (lastOp.offset = 0
                  /\ SessionTurns(memConvs, lastOp.sid) # << >>)
                    => lastOp.hist # << >>

C9_Witness ==
    /\ ~connected
    /\ lastOp.op = "history"
    /\ lastOp.hist # << >>

\* C10 as stated: what get_database_stats reports as connected is the state
\* fixed at construction.
C10_StatsReportConstructionState ==
    lastOp.op = "stats" => lastOp.stats.connected = connected

\* C10 amended: is_connected() never changes after construction;
\* get_database_stats reports connected = true exactly on a store that
\* connected at construction and whose stats query did not raise in this call.
C10_ConnectedFixed ==
    [][/\ is_connected' = is_connected
       /\ lastOp'.op = "stats" =>
            lastOp'.stats.connected = (connected /\ ~lastOp'.failed)
      ]_vars

C10_Witness ==
    /\ lastOp.op = "stats"
    /\ lastOp.failed
    /\ is_connected
    /\ ~lastOp.stats.connected

\* C11: on a store that connected at construction, a get_conversation_history,
\* get_session_summary, get_user_sessions or cleanup_old_sessions call in
\* which a durable call fails does not raise to its caller.
C11_RetrievalFailuresNeverRaise ==
    (/\ connected
     /\ lastOp.failed
     /\ lastOp.op \in {"history", "summary", "user_sessions", "cleanup"})
        => ~lastOp.raised

\* The turns and the session records of the tier a call on this store uses.
ActiveTurns == IF connected THEN dConvs ELSE memConvs

ActiveSessions == IF connected THEN dSessions ELSE memSessions

\* C12: a cleanup_old_sessions call (in which no durable call fails) with
\* cutoff c leaves, in the active tier, exactly the turns whose timestamp is
\* not before c and exactly the sessions whose last_activity is not before
\* c, and returns the number of turns it removed.
C12_CleanupRemovesOld ==
    [][(lastOp'.op = "cleanup" /\ ~lastOp'.failed) =>
        LET c == lastOp'.cutoff
        IN  /\ ActiveTurns' = SelectSeq(ActiveTurns,
                  LAMBDA t : FromIsoFormat(t.timestamp) >= c)
            /\ \A s \in SessionIds :
                  ActiveSessions'[s] =
                     IF ActiveSessions[s].present
                        /\ ActiveSessions[s].last_activity < c
                     THEN NoSession ELSE ActiveSessions[s]
            /\ lastOp'.deleted = Len(ActiveTurns) - Len(ActiveTurns')
      ]_vars

\* C13: after a build_prompt call that returns a prompt the window holds at
\* most max_history entries, whatever it held before the call.
C13_WindowBounded ==
    (runOut.op = "build_prompt" /\ ~runOut.error)
        => Len(conversation_history) <= max_history

C13_Witness ==
    /\ runOut.op = "build_prompt"
    /\ ~runOut.error
    /\ runOut.window_before = 2 * LoadLimit
    /\ Len(conversation_history) = max_history

\* C14: after a build_prompt call on a valid input that found more than
\* summary_threshold entries in the window, the window holds at most
\* max_history entries and the summary is not the empty string.
C14_SummaryProduced ==
    (/\ runOut.op = "build_prompt"
     /\ ~runOut.error
     /\ runOut.window_before > summary_threshold)
        => /\ Len(conversation_history) <= max_history
           /\ conversation_summary.text # ""

\* C15: a build_prompt call whose input is rejected returns the error flag,
\* the reason validate_input gave, the three rephrase suggestions and no
\* prompt, and leaves the window and the summary as they were.
C15_RejectionTouchesNothing ==
    [][(runOut'.op = "build_prompt" /\ ~validate_input(runOut'.input).is_valid)
        => /\ runOut'.error
           /\ runOut'.message = validate_input(runOut'.input).reason
           /\ runOut'.message # ""
           /\ runOut'.suggestions = RephraseSuggestions
           /\ runOut'.prompt = NoPrompt
           /\ conversation_history' = conversation_history
           /\ conversation_summary' = conversation_summary
      ]_vars

C15_Witness ==
    /\ runOut.op = "build_prompt"
    /\ runOut.error
    /\ runOut.window_before > summary_threshold
    /\ Len(conversation_history) > max_history

\* C16: validate_input rejects every input that matches a harmful-content
\* pattern, every input of fewer than 3 characters after stripping (with the
\* too-short reason when nothing harmful matches) and every input of more
\* than 5000 characters (with the too-long reason when nothing harmful
\* matches and it is not too short); it accepts every other input.
C16_HardBlocks ==
    runOut.op = "validate_input" =>
        LET x == runOut.input
            harmful == HasWord(Words(x), HarmfulWords)
                       \/ HasPair(Words(x), HarmfulPairs)
            short == x \in {ShortText, PaddedText}
            long == x \in {LongText, LongHarmfulText}
        IN  /\ (harmful \/ short \/ long) <=> ~runOut.is_valid
            /\ harmful => runOut.reason = "Content violates safety guidelines."
            /\ (short /\ ~harmful) => runOut.reason = "Message is too short."
            /\ (long /\ ~harmful /\ ~short)
                  => runOut.reason = "Message is too long."

C16_Witness ==
    /\ runOut.op = "validate_input"
    /\ runOut.input = PaddedText
    /\ ~runOut.is_valid

\* C17: with the default configuration validate_input rejects every input
\* that matches a spam pattern (a run of 21 or more repeated characters or a
\* promotional phrase).
C17_SpamRejected ==
    (runOut.op = "validate_input" /\ MatchesSpam(runOut.input))
        => ~runOut.is_valid

\* C18: in a run whose generated text matches a harmful-content pattern, the
\* call returns a non-error response whose content is the refusal message,
\* the turn handed to save_conversation_turn carries the user input and the
\* refusal message (and is stored when the save does not raise), and the
\* window ends with the user entry and the refusal as assistant entry; no
\* stored response and no assistant entry of the window matches a
\* harmful-content pattern.
C18_HarmfulOutputReplaced ==
    /\ (runOut.op = "run" /\ MatchesHarmful(runOut.generated)) =>
          LET n == Len(conversation_history)
          IN  /\ ~runOut.error
              /\ runOut.content = RefusalMessage
              /\ runOut.save_called
              /\ lastOp.op = "save"
              /\ lastOp.turn.user_message = runOut.input
              /\ lastOp.turn.ai_response = RefusalMessage
              /\ ~lastOp.raised =>
                    Recorded(AgentSession, runOut.input, RefusalMessage)
              /\ n >= 2
              /\ conversation_history[n - 1] =
                    [role |-> "user", content |-> runOut.input]
              /\ conversation_history[n] =
                    [role |-> "assistant", content |-> RefusalMessage]
              /\ acked # << >>
              /\ acked[Len(acked)] = [user_message |-> runOut.input,
                                      ai_response |-> RefusalMessage]
    /\ \A i \in 1..Len(Stored) : ~MatchesHarmful(Stored[i].ai_response)
    /\ \A i \in 1..Len(conversation_history) :
          conversation_history[i].role = "assistant"
             => ~MatchesHarmful(conversation_history[i].content)

C18_Witness ==
    /\ runOut.op = "run"
    /\ runOut.generated = JsonHarmful
    /\ runOut.content = RefusalMessage
    /\ lastOp.op = "save"
    /\ ~lastOp.raised
    /\ Recorded(AgentSession, runOut.input, RefusalMessage)

Sleeps(events) ==
    Cardinality({i \in 1..Len(events) : events[i].kind = "sleep"})

\* What the calls of the model made so far did, followed by "ok" for the
\* calls that were not made.
OutcomesSoFar(events) ==
    [k \in 1..max_retries |->
        IF 2 * k - 1 <= Len(events) THEN events[2 * k - 1].outcome ELSE "ok"]

\* C19: within one _generate_response call the model is called at most 3
\* times and the call sleeps at most 2 times; every call of the model after
\* the first comes right after one sleep, which comes right after a call
\* that failed with a quota error; no sleep follows the third call; a
\* finished call ends with a call of the model, and its result is that of
\* _generate_response on these outcomes.
C19_AtMostThreeInvocations ==
    LET ev == generation.events
    IN  /\ Invocations(ev) <= 3
        /\ Sleeps(ev) <= 2
        /\ \A i \in 1..Len(ev) :
              /\ (ev[i].kind = "invoke" /\ i > 1) =>
                    /\ i >= 3
                    /\ ev[i - 1].kind = "sleep"
                    /\ ev[i - 2].kind = "invoke"
                    /\ ev[i - 2].outcome = "quota"
              /\ ev[i].kind = "sleep" =>
                    /\ i > 1
                    /\ ev[i - 1].kind = "invoke"
                    /\ ev[i - 1].outcome = "quota"
                    /\ Invocations(SubSeq(ev, 1, i)) < 3
        /\ generation.status = "backoff" => Invocations(ev) < 3
        /\ generation.status \in {"returned", "raised"} =>
              LET g == _generate_response(OutcomesSoFar(ev), generation.text)
              IN  /\ ev # << >>
                  /\ ev[Len(ev)].kind = "invoke"
                  /\ g.raised = (generation.status = "raised")
                  /\ g.text = generation.text
                  /\ g.attempts = Invocations(ev)
                  /\ g.waits = Sleeps(ev)

C19_Witness ==
    /\ generation.status = "returned"
    /\ Invocations(generation.events) = 3
    /\ Sleeps(generation.events) = 2
    /\ generation.events[5].outcome = "quota"
    /\ generation.text = HighDemandMessage

\* C20: the sleep before retry k (k = 0, 1) lasts at least 2 * 2^k and at
\* most 2 * 2^k + 1 seconds; a call in which two quota errors are followed
\* by a success sleeps exactly twice, the second time at least as long as
\* the first, calls the model exactly 3 times and returns the text of the
\* successful call.
C20_BackoffGrows ==
    LET ev == generation.events
    IN  /\ \A k \in 0..1 :
              (2 * k + 2 <= Len(ev)) =>
                 /\ ev[2 * k + 2].kind = "sleep"
                 /\ ev[2 * k + 2].delay >= 2 * Pow2(k) * JitterSteps
                 /\ ev[2 * k + 2].delay <= (2 * Pow2(k) + 1) * JitterSteps
        /\ (/\ generation.status = "returned"
            /\ Len(ev) = 5
            /\ ev[5].outcome = "ok") =>
                 /\ ev[1].outcome = "quota"
                 /\ ev[3].outcome = "quota"
                 /\ Sleeps(ev) = 2
                 /\ ev[4].delay >= ev[2].delay
                 /\ Invocations(ev) = 3
                 /\ generation.text = ev[5].text
                 /\ generation.text \in GeneratedTexts

C20_Witness ==
    /\ generation.status = "returned"
    /\ Len(generation.events) = 5
    /\ generation.events[5].outcome = "ok"
    /\ generation.events[2].delay = Delay(0, JitterSteps - 1)
    /\ generation.events[4].delay = Delay(1, 0)
    /\ generation.text = "r1"

\* ------------------------------------------------------------------------
\* Error handling of run
\* ------------------------------------------------------------------------
\* Every call of the model made in the run failed with a quota error, and the
\* attempts were used up.
AllQuota(outcomes) ==
    /\ Len(outcomes) = max_retries
    /\ \A k \in 1..Len(outcomes) : outcomes[k] = "quota"

\* The window ends with the pair of this input and this content.
WindowEndsWith(user_input, content) ==
    LET n == Len(conversation_history)
    IN  /\ n >= 2
        /\ conversation_history[n - 1] =
              [role |-> "user", content |-> user_input]
        /\ conversation_history[n] =
              [role |-> "assistant", content |-> content]

\* C21: a run in which all three calls of the model fail with a quota error
\* returns a non-error response whose content is the high demand message
\* (_generate_response returned it instead of raising), after three calls and
\* two waits, and the pair is appended to the window like any other reply.
C21_QuotaExhaustionDegrades ==
    (runOut.op = "run" /\ AllQuota(runOut.outcomes)) =>
        /\ ~runOut.error
        /\ runOut.error_type = ""
        /\ runOut.generated = HighDemandMessage
        /\ runOut.content = HighDemandMessage
        /\ runOut.attempts = max_retries
        /\ runOut.waits = max_retries - 1
        /\ WindowEndsWith(runOut.input, HighDemandMessage)

C21_Witness ==
    /\ runOut.op = "run"
    /\ AllQuota(runOut.outcomes)
    /\ runOut.content = HighDemandMessage
    /\ ~runOut.error

\* C22: in a run in which a call of the model fails with an error that is not
\* a quota error, that call is the last one made, the waits are those of the
\* quota errors before it, and run returns an error result of type
\* processing_error that carries the exception raised by _generate_response;
\* nothing is saved and nothing is appended to the window.
C22_OtherErrorAborts ==
    (runOut.op = "run"
       /\ \E k \in 1..Len(runOut.outcomes) : runOut.outcomes[k] = "other") =>
        LET n == Len(runOut.outcomes)
        IN  /\ runOut.outcomes[n] = "other"
            /\ \A k \in 1..(n - 1) : runOut.outcomes[k] = "quota"
            /\ runOut.attempts = n
            /\ runOut.waits = n - 1
            /\ runOut.error
            /\ runOut.error_type = "processing_error"
            /\ runOut.error_details = "Gemini API error"
            /\ ~runOut.save_called

C22_Witness ==
    /\ runOut.op = "run"
    /\ runOut.outcomes = << "quota", "other" >>
    /\ runOut.error_type = "processing_error"

\* C23: with format_type json, a run whose generated text is not a complete
\* structured response returns a non-error response, and its pair is appended
\* to the window.
C23_IncompleteStructureRecovered ==
    (runOut.op = "run" /\ runOut.format_type = "json"
       /\ runOut.generated # "" /\ runOut.generated # JsonFull) =>
        /\ ~runOut.error
        /\ runOut.save_called
        /\ WindowEndsWith(runOut.input, runOut.content)

\* C24: a run whose input is rejected makes no call of the model and adds
\* exactly one turn to the store, with the rejected input, the rejection
\* explanation and the metadata input_validation.
C24_RejectionPersisted ==
    [][(runOut'.op = "run" /\ runOut'.error_type = "input_validation"
          /\ IsSaveStep) =>
         /\ runOut'.error
         /\ runOut'.attempts = 0
         /\ Len(Stored') = Len(Stored) + 1
         /\ \E i \in 1..Len(Stored') :
               /\ Stored'[i].id = nextId
               /\ Stored'[i].session_id = AgentSession
               /\ Stored'[i].user_message = runOut'.input
               /\ Stored'[i].ai_response = runOut'.content
               /\ Stored'[i].metadata = "input_validation"]_vars

\* What run returns as content for this generated text and format.
ReplyContent(format_type, generated) ==
    LET text == IF MatchesHarmful(generated) THEN RefusalMessage ELSE generated
    IN  IF format_type = "json" /\ text = JsonFull
        THEN JsonContent
        ELSE text

\* C25: when save_conversation_turn raises in a turn that was generated and
\* structured, run returns the same non-error response as without the failure
\* and the pair is appended to the window.
C25_SaveFailureNotAnError ==
    (runOut.op = "run" /\ runOut.save_called /\ lastOp.op = "save"
       /\ lastOp.raised /\ runOut.error_type # "input_validation") =>
        /\ ~runOut.error
        /\ runOut.content = ReplyContent(runOut.format_type, runOut.generated)
        /\ WindowEndsWith(runOut.input, runOut.content)
        /\ acked # << >>
        /\ acked[Len(acked)] = [user_message |-> runOut.input,
                                ai_response |-> runOut.content]

C25_Witness ==
    /\ runOut.op = "run"
    /\ runOut.save_called
    /\ lastOp.op = "save"
    /\ lastOp.raised
    /\ ~runOut.error
    /\ runOut.generated = "r1"
    /\ WindowEndsWith(runOut.input, "r1")

\* ------------------------------------------------------------------------
\* clear_conversation
\* ------------------------------------------------------------------------
\* C26: a clear_conversation call leaves the window and the summary empty and
\* changes no collection of the store; what get_conversation_history and
\* get_session_summary can return for any session, limit and offset is the
\* same before and after the call.
C26_ClearKeepsStore ==
    [][runOut'.op = "clear" =>
         /\ conversation_history' = << >>
         /\ conversation_summary' = EmptySummary
         /\ dConvs' = dConvs
         /\ memConvs' = memConvs
         /\ dSessions' = dSessions
         /\ memSessions' = memSessions
         /\ \A s \in SessionIds :
               /\ DurableSummary(s)' = DurableSummary(s)
               /\ MemorySummary(s)' = MemorySummary(s)
               /\ \A limit \in 1..MaxLimit, offset \in 0..MaxOffset,
                     findFails \in BOOLEAN :
                     HistoryOutcomes(s, limit, offset, findFails)' =
                        HistoryOutcomes(s, limit, offset, findFails)]_vars

\* A window with a stored turn behind it has just been cleared.
C26_Witness ==
    /\ runOut.op = "clear"
    /\ conversation_history = << >>
    /\ \E i \in 1..Len(Stored) : Stored[i].session_id = AgentSession
    /\ acked # << >>

\* ------------------------------------------------------------------------
\* The shape of the window
\* ------------------------------------------------------------------------
\* C29: in every state of the prompt manager of an agent (after construction,
\* build_prompt, add_to_history and clear_history in any order) the window
\* has even length, its odd entries are user entries and its even entries are
\* assistant entries.
C29_WindowAlternates ==
    /\ Len(conversation_history) % 2 = 0
    /\ \A i \in 1..Len(conversation_history) :
          conversation_history[i].role =
              IF i % 2 = 1 THEN "user" ELSE "assistant"

\* A pair has been appended to a window that build_prompt had truncated.
C29_Witness ==
    /\ runOut.op = "add_to_history"
    /\ Len(conversation_history) = max_history + 2
    /\ conversation_history[1].role = "user"

\* ------------------------------------------------------------------------
\* The window of a new agent
\* ------------------------------------------------------------------------
\* The turns of the agent's session in the collection the construction read.
LoadableTurns == SessionTurns(TierRead, AgentSession)

\* C30: after the construction of an agent the window is empty when the
\* loading raised or the session has no stored turn; otherwise it holds, for
\* k the smaller of 20 and the number of stored turns of the session, 2k
\* entries: the i-th pair is the user and assistant entry of a stored turn of
\* the session that can hold rank k - i + 1 counted from the newest, so the k
\* most recent turns appear oldest first, and no turn appears twice.
C30_WindowLoaded ==
    runOut.op = "construct" =>
        LET all == LoadableTurns
            k == Min(LoadLimit, Len(all))
            window == conversation_history
        IN  IF lastOp.raised
            THEN window = << >>
            ELSE /\ Len(window) = 2 * k
                 /\ window = lastOp.hist
                 /\ \A i \in 1..k :
                       \E j \in 1..Len(all) :
                          /\ window[2 * i - 1] =
                                [role |-> "user",
                                 content |-> all[j].user_message]
                          /\ window[2 * i] =
                                [role |-> "assistant",
                                 content |-> all[j].ai_response]
                          /\ Newer(all, all[j]) <= k - i
                          /\ NotOlder(all, all[j]) >= k - i + 1
                 /\ \A i, j \in 1..k :
                       i # j => window[2 * i] # window[2 * j]

\* More turns than the limit are stored and the construction loaded twenty.
C30_Witness ==
    /\ runOut.op = "construct"
    /\ ~lastOp.raised
    /\ Len(LoadableTurns) > LoadLimit
    /\ Len(conversation_history) = 2 * LoadLimit
    /\ conversation_history[1].content = ToString(Len(LoadableTurns) - LoadLimit + 1)

\* The loading raised and left the window empty although turns are stored.
C30_WitnessRaised ==
    /\ runOut.op = "construct"
    /\ lastOp.raised
    /\ Len(SessionTurns(dConvs, AgentSession)) > 0
    /\ conversation_history = << >>

\* ------------------------------------------------------------------------
\* Two callers of run
\* ------------------------------------------------------------------------
\* No call has run while another call was in progress.
Serial == \A c \in Callers : ~calls[c].overlapped

RECURSIVE PairsOf(_)
PairsOf(turns) ==
    IF turns = << >> THEN << >>
    ELSE << [role |-> "user", content |-> Head(turns).user_message],
            [role |-> "assistant", content |-> Head(turns).ai_response] >>
         \o PairsOf(Tail(turns))

\* The window ends with the pairs of the turns returned as replies, in the
\* order in which they were returned.
WindowFollowsReturns ==
    LET pairs == PairsOf(acked)
        n == Len(conversation_history)
    IN  /\ Len(pairs) <= n
        /\ SubSeq(conversation_history, n - Len(pairs) + 1, n) = pairs

\* C27: as long as the calls of run on the agent follow one another, the
\* window ends with the pairs of the replies returned, in the order of their
\* return; the witness is a state in which two calls have overlapped, both
\* have returned a reply, and the pair of one of them is not in the window.
C27_SerialCallsKeepPairs == Serial => WindowFollowsReturns

C27_Witness ==
    /\ ~Serial
    /\ \A c \in Callers : calls[c].pc = "ready" /\ calls[c].result = "reply"
    /\ Len(acked) = 2
    /\ \E c \in Callers :
          \A i \in 1..Len(conversation_history) :
              conversation_history[i] #
                 [role |-> "user", content |-> calls[c].input]
    /\ ~WindowFollowsReturns

\* C28: a call of run that has returned has returned a response object, a
\* call in progress can always take a step, and every call in progress
\* eventually returns and leaves its caller ready for the next call.
C28_EveryRunReturns ==
    /\ [](\A c \in Callers :
             /\ (~InProgress(c) /\ calls[c].started > 0) =>
                   calls[c].result \in
                      {"reply", "input_validation", "processing_error"}
             /\ InProgress(c) => ENABLED Step(c))
    /\ \A c \in Callers : InProgress(c) ~> ~InProgress(c)

\* A call that met three quota errors and waited twice has returned.
C28_Witness ==
    \E c \in Callers :
        /\ ~InProgress(c)
        /\ calls[c].result = "reply"
        /\ calls[c].attempt = max_retries - 1
        /\ calls[c].content = HighDemandMessage

\* suffix is what is left of seq when some of its first elements are dropped
IsSuffix(suffix, seq) ==
    /\ Len(suffix) <= Len(seq)
    /\ suffix = SubSeq(seq, Len(seq) - Len(suffix) + 1, Len(seq))

\* The user/assistant pair of a turn
TurnPair(user_input, content) ==
    << [role |-> "user", content |-> user_input],
       [role |-> "assistant", content |-> content] >>

\* C31: after construction only a run that returns a non-error response adds
\* entries to the window, and it adds exactly the pair of its input and the
\* content it returned, behind what the window kept; a run that ends in an
\* input-validation rejection or in a processing error adds nothing, and
\* neither does any other operation of the agent.
C31_OnlyRepliesExtendWindow ==
    [][IF runOut'.op = "run" /\ ~runOut'.error
       THEN \E kept \in {SubSeq(conversation_history, k,
                                Len(conversation_history)) :
                            k \in 1..Len(conversation_history) + 1} :
               conversation_history' =
                   kept \o TurnPair(runOut'.input, runOut'.content)
       ELSE IsSuffix(conversation_history', conversation_history)]_vars

\* A reply was returned by an agent whose window held more than max_history
\* entries: the window was cut and the pair appended; and the state before
\* can also be left by a run that fails.
C31_Witness ==
    /\ runOut.op = "run"
    /\ ~runOut.error
    /\ Len(conversation_history) = max_history + 2
    /\ conversation_summary.text # ""
    /\ IsSuffix(TurnPair(runOut.input, runOut.content), conversation_history)

Padding == [i \in 1..max_history |-> [role |-> "assistant", content |-> "r1"]]

\* C32: when build_prompt summarises (the input is valid and the window holds
\* more than summary_threshold entries), the window it leaves is exactly the
\* last max_history entries of the old window in their order, and the summary
\* is the digest of exactly the entries that were dropped; apart from this
\* step and clear_history no operation makes the window shorter.
C32_SummaryCoversDropped ==
    [][LET old == conversation_history
           summarised == /\ runOut'.op = "run"
                         /\ runOut'.error_type # "input_validation"
                         /\ Len(old) > summary_threshold
           first == IF Len(old) > max_history
                    THEN Len(old) - max_history + 1 ELSE 1
           kept == SubSeq(old, first, Len(old))
           dropped == SubSeq(old, 1, first - 1)
       IN  /\ summarised =>
                /\ conversation_history' =
                      IF runOut'.error THEN kept
                      ELSE kept \o TurnPair(runOut'.input, runOut'.content)
                /\ conversation_summary' =
                      summarize_conversation(dropped \o Padding, max_history)
           /\ Len(conversation_history') < Len(old) =>
                 summarised \/ runOut'.op = "clear"]_vars

\* A run has cut a window of more than max_history entries: the first turn
\* loaded is gone from the window and the summary is the digest of its user
\* message.
C32_Witness ==
    /\ runOut.op = "run"
    /\ runOut.error_type = "processing_error"
    /\ Len(conversation_history) = max_history
    /\ conversation_history[1].content = "2"
    /\ conversation_summary.topics = << Topic("1") >>
    /\ conversation_summary.others = 0

\* C37: once conversation_summary is non-empty it stays non-empty until
\* clear_history is called: no step other than a clear, and so no build_prompt
\* of a later turn, replaces a non-empty summary with the empty string.
C37_SummaryStaysNonEmpty ==
    [][(conversation_summary.text # "" /\ runOut'.op # "clear")
          => conversation_summary'.text # ""]_vars

C36_FallbackKeepsSaveOrder ==
    (/\ ~connected
     /\ lastOp.op = "history"
     /\ lastOp.offset = 0)
    => LET saved == SessionTurns(memConvs, lastOp.sid)
           k == Min(lastOp.limit, Len(saved))
       IN  lastOp.sel = SubSeq(saved, Len(saved) - k + 1, Len(saved))

\* ------------------------------------------------------------------------
\* Sessions deleted and restored
\* ------------------------------------------------------------------------
\* C35: deleting a session removes its entry from the registry and changes
\* no stored turn and no session record; and when a later chat request for
\* the session constructs a new agent whose store connects and whose query
\* succeeds, the agent is registered and its window holds the pairs of the
\* stored turns of the session (of the LoadLimit most recent ones).
C35_DeleteKeepsStoredTurns ==
    [][/\ runOut'.op = "delete" =>
            /\ enhanced_sessions' = enhanced_sessions \ {AgentSession}
            /\ UNCHANGED << dConvs, dSessions, memConvs, memSessions >>
       /\ (runOut'.op = "construct" /\ connected /\ ~lastOp'.failed) =>
            LET all == SessionTurns(dConvs, AgentSession)
                k == Min(LoadLimit, Len(all))
            IN  /\ AgentSession \in enhanced_sessions'
                /\ UNCHANGED << dConvs, dSessions >>
                /\ Len(conversation_history') = 2 * k
                /\ Len(all) <= LoadLimit =>
                      \A j \in 1..Len(all) : \E i \in 1..k :
                          SubSeq(conversation_history', 2 * i - 1, 2 * i) =
                              TurnPair(all[j].user_message,
                                       all[j].ai_response)]_vars

\* The session was deleted after a turn and a chat request has restored its
\* agent from the durable turns.
C35_Witness ==
    /\ runOut.op = "construct"
    /\ chat = "agent restored"
    /\ connected
    /\ ~lastOp.failed
    /\ acked # << >>
    /\ conversation_history =
          TurnPair(acked[1].user_message, acked[1].ai_response)
    /\ Len(SessionTurns(dConvs, AgentSession)) = 1

\* C38: an input rejected by input validation is never an entry of the
\* window of an agent, neither of the agent that rejected it nor of an agent
\* constructed later for the session.
C38_RejectedInputNotInWindow ==
    AgentSession \in enhanced_sessions =>
        \A i \in 1..Len(conversation_history) :
            conversation_history[i].role = "user" =>
                validate_input(conversation_history[i].content).is_valid

\* C39: when the backend is unreachable for the store of the agent that is
\* dropped and for the store of the agent constructed next for the session,
\* the turns the fallback collection held are in the fallback collection of
\* the new store.
C39_FallbackSharedByAgents ==
    [][(runOut'.op = "store" /\ ~connected /\ ~connected') =>
          SessionTurns(memConvs', AgentSession) =
              SessionTurns(memConvs, AgentSession)]_vars

\* ------------------------------------------------------------------------
\* The history of a SimpleAgent
\* ------------------------------------------------------------------------
\* C40: after every SimpleAgent.run call, however it ended, the history
\* consists of alternating user and assistant entries starting with a user
\* entry, and every user entry is followed by an assistant entry.
C40_SimpleHistoryAlternates ==
    /\ Len(simple_history) % 2 = 0
    /\ \A i \in 1..Len(simple_history) :
          simple_history[i].role =
              IF i % 2 = 1 THEN "user" ELSE "assistant"

====
